---- MODULE Spec2Model ----
(***************************************************************************)
(* A model of reolinkfw: the section windows over a shared byte source     *)
(* (util.SectionFile), the reference counting of the byte source           *)
(* (ReolinkFirmware.open / close / _fdclose), the section-count inference  *)
(* (mypakler.guess_section_count) and the firmware facade                  *)
(* (ReolinkFirmware.__init__, __getitem__, get_info).                      *)
(***************************************************************************)
EXTENDS Integers, Sequences, FiniteSets, TLC

VARIABLES
    \* --- section windows over one byte source (util.SectionFile) ---
    fdpos,      \* cursor of the parent byte source (self._fd)
    wsec,       \* wsec[w]: the section (start, len) window w was opened on
    position,   \* position[w]: SectionFile._position (absolute offset)
    ret,        \* what the last operation returned
    aloneFd,    \* aloneFd[w]: cursor of a private copy of the source used by w only
    alonePos,   \* alonePos[w]: _position of w when its operations run alone
    aloneRet,   \* what the last operation returned when run alone
    \* --- ownership of the byte source (ReolinkFirmware.open / close) ---
    closefd,    \* PAK._closefd
    fwFd,       \* ReolinkFirmware._fd: "fd" or "None"
    open_files, \* ReolinkFirmware._open_files
    fdClosed,   \* whether the byte source has been closed (fd.close() ran)
    files,      \* the SectionFile objects returned by open(), in order
    \* --- section-count inference (mypakler.guess_section_count) ---
    pak,        \* the PAK bytes, as far as read_header looks at them
    guess,      \* what guess_section_count returned
    \* --- the firmware object (ReolinkFirmware) ---
    sections,   \* PAK.sections: the section table, in PAK order
    fw,         \* the fields ReolinkFirmware.__init__ sets, or its failure
    got,        \* what the last fw[key] returned
    pc,         \* where get_info stands
    app,        \* get_info: index of the section taken as the application FS
    fs,         \* get_info: FileType of the first four bytes of that section
    inner,      \* get_files_from_ubi: FileType of the file system inside the UBI
    error,      \* get_info: the error it returned or raised
    \* --- firmware_info and the command line (firmware_info, __main__) ---
    inp,        \* the command, its flags, and the archive it is given
    fpc,        \* where firmware_info / the command stands
    idx,        \* the PAK of the archive being worked on
    stage,      \* the statement of get_info being run for that PAK
    info,       \* the reports built so far
    exc,        \* the exception that left firmware_info or the command, if any
    exitcode,   \* the exit code of the process, once it has ended
    stderr,     \* whether a message was written to stderr
    printed,    \* how many reports the command printed
    \* --- one call of a function of the package ---
    call,       \* the function called and what it is called on
    result,     \* what the call returned or raised
    \* --- the lazily computed fields of a firmware object ---
    img,        \* what the decoders make of the bytes of the firmware
    memo,       \* _uboot_section, _uboot, _kernel_section, _kernel, _fdt
    runs,       \* how many times each of the five computations has run
    last,       \* the last accessor called and what it returned or raised
    \* --- ReolinkFirmware.extract ---
    xin,        \* the firmware, the force flag and what the destination held
    disk,       \* disk[path]: what the destination holds at path
    xpc,        \* where extract stands
    xi,         \* the file-system section being extracted
    rootfsdir,  \* extract: the name of the root file-system directory
    out,        \* the directories the file-system sections went to, in order
    xerr,       \* the exception extract raised, if any
    \* --- util.lz4_legacy_decompress ---
    res,        \* the blocks decompressed so far
    fpos,       \* how far f has been read
    lzpc,       \* where lz4_legacy_decompress stands
    \* --- the firmware objects firmware_info and the command hold ---
    opened,     \* the PAKs of the archive whose firmware object is open
    \* --- the download cache (util.get_cache_file, make_cache_file) ---
    cachedir,   \* cachedir[f]: what the file f of the cache directory holds
    asked,      \* the calls of firmwares_from_file so far
    served,     \* what the last call returned or raised, and where from
    fetches,    \* how many downloads have been made
    made,       \* the URLs whose download make_cache_file has stored
    \* --- temporary files (tmpfile.TempFileFromBytes) ---
    held,       \* what the user of a temporary file has created and not released
    tpc         \* where the user of the temporary file stands

winVars == <<fdpos, wsec, position, ret, aloneFd, alonePos, aloneRet>>
refVars == <<closefd, fwFd, open_files, fdClosed, files>>
guessVars == <<pak, guess>>
fwVars == <<sections, fw, got, pc, app, fs, inner, error>>

facVars == <<inp, fpc, idx, stage, info, exc, exitcode, stderr, printed>>

\* the variables of the components below the facade, and those added above
coreVars == <<winVars, refVars, guessVars, fwVars>>
callVars == <<call, result>>
memoVars == <<img, memo, runs, last>>
extVars == <<xin, disk, xpc, xi, rootfsdir, out, xerr>>
lzVars == <<res, fpos, lzpc>>
cloVars == <<opened>>
urlVars == <<cachedir, asked, served, fetches, made>>
tmpVars == <<held, tpc>>
lateVars == <<lzVars, cloVars, urlVars, tmpVars>>
\* the late variables but those of the firmware objects
notCloVars == <<lzVars, urlVars, tmpVars>>
restVars == <<facVars, callVars, memoVars, extVars, lateVars>>

vars == <<coreVars, restVars>>

----------------------------------------------------------------------------
(* Bounds of the model *)

\* length of the byte source
SrcLen == 3
\* largest start offset of a section
MaxStart == 1
\* largest length of a section
MaxLen == 2
\* largest number of sections in the section table of a firmware
MaxSections == 4
\* largest section count a PAK header of the model parses with
MaxCount == 31
\* largest number of windows opened on one firmware object
MaxFiles == 3
\* largest size / offset argument passed to read, peek and seek
MaxArg == 2
\* how far past the window end a seek may put the cursor in the model
MaxPast == 1

----------------------------------------------------------------------------
(* The byte source: byte i of the source is modelled by its offset i, so a *)
(* returned sequence says which bytes of the source were read.             *)

Min(a, b) == IF a < b THEN a ELSE b
Max(a, b) == IF a < b THEN b ELSE a

\* io.SEEK_SET, io.SEEK_CUR, io.SEEK_END
SEEK_SET == 0
SEEK_CUR == 1
SEEK_END == 2

\* util.ONEMIB
ONEMIB == 1048576

\* the bytes of the source at offsets [from, to)
Bytes(from, to) == [i \in 1..(IF to > from THEN to - from ELSE 0) |-> from + i - 1]

\* fd.read(n) with the parent cursor at p, n >= 0: the data and the new cursor
FdRead(p, n) ==
    LET stop == Min(p + n, SrcLen)
    IN  IF p >= SrcLen THEN [data |-> <<>>, pos |-> p]
        ELSE [data |-> Bytes(p, stop), pos |-> stop]

----------------------------------------------------------------------------
(* util.SectionFile: a window [start, start+len) over the byte source.     *)
(* Each method is an operator from the window's fields, the parent cursor  *)
(* and the arguments to the returned value and the fields after the call.  *)

\* a size argument: None, or an int
None == [t |-> "None", v |-> 0]
Int_(n) == [t |-> "int", v |-> n]
Sizes == {None} \cup {Int_(n) : n \in (0 - 1)..MaxArg}
Offsets == (0 - MaxArg)..MaxArg
Whences == {SEEK_SET, SEEK_CUR, SEEK_END, 3}

Sections == [start : 0..MaxStart, len : 0..MaxLen]

\* SectionFile.__init__: _start, _end, _position
SectionFile_init(section) == section.start
SectionEnd(section) == section.start + section.len

\* SectionFile.tell
tell(section, pos) == pos - section.start

\* SectionFile.peek(size)
SectionFile_peek(section, pos, fd, size) ==
    LET end == SectionEnd(section)
        max_read == end - pos
    IN  IF size = None
        THEN [err |-> TRUE, data |-> <<>>, position |-> pos, fd |-> fd]
        ELSE IF pos >= end \/ size = Int_(0)
        THEN [err |-> FALSE, data |-> <<>>, position |-> pos, fd |-> fd]
        ELSE LET n == IF size.v < 0 \/ size.v > max_read THEN max_read ELSE size.v
                 r == FdRead(pos, n)
             IN  [err |-> FALSE, data |-> r.data, position |-> pos, fd |-> r.pos]

\* SectionFile.read without the clipping of size to the window end
SectionFile_read_unclipped(section, pos, fd, size) ==
    LET end == SectionEnd(section)
        max_read == end - pos
    IN  IF pos >= end \/ size = Int_(0)
        THEN [err |-> FALSE, data |-> <<>>, position |-> pos, fd |-> fd]
        ELSE LET n == IF size = None THEN max_read
                      ELSE IF size.v < 0 THEN max_read ELSE size.v
                 r == FdRead(pos, n)
             IN  [err |-> FALSE, data |-> r.data, position |-> r.pos, fd |-> r.pos]

\* SectionFile.read without the seek of the parent to the window's cursor
SectionFile_read_noseek(section, pos, fd, size) ==
    LET end == SectionEnd(section)
        max_read == end - pos
    IN  IF pos >= end \/ size = Int_(0)
        THEN [err |-> FALSE, data |-> <<>>, position |-> pos, fd |-> fd]
        ELSE LET n == IF size = None THEN max_read
                      ELSE IF size.v < 0 \/ size.v > max_read THEN max_read ELSE size.v
                 r == FdRead(fd, n)
             IN  [err |-> FALSE, data |-> r.data, position |-> r.pos, fd |-> r.pos]

\* SectionFile.read(size)
SectionFile_read(section, pos, fd, size) ==
    LET end == SectionEnd(section)
        max_read == end - pos
    IN  IF pos >= end \/ size = Int_(0)
        THEN [err |-> FALSE, data |-> <<>>, position |-> pos, fd |-> fd]
        ELSE LET n == IF size = None THEN max_read
                      ELSE IF size.v < 0 \/ size.v > max_read THEN max_read ELSE size.v
                 \* self._fd.seek(self._position); self._fd.read(size)
                 r == FdRead(pos, n)
             IN  \* self._position = self._fd.tell()
                 [err |-> FALSE, data |-> r.data, position |-> r.pos, fd |-> r.pos]

\* SectionFile.seek without the check of the new position against the start
SectionFile_seek_unchecked(section, pos, offset, whence) ==
    LET newpos == IF whence = SEEK_SET THEN section.start + offset
                  ELSE IF whence = SEEK_CUR THEN pos + offset
                  ELSE SectionEnd(section) + offset
    IN  IF whence \notin {SEEK_SET, SEEK_CUR, SEEK_END}
        THEN [err |-> TRUE, position |-> pos, val |-> 0]
        ELSE [err |-> FALSE, position |-> newpos, val |-> tell(section, newpos)]

\* SectionFile.seek(offset, whence)
SectionFile_seek(section, pos, offset, whence) ==
    LET newpos == IF whence = SEEK_SET THEN section.start + offset
                  ELSE IF whence = SEEK_CUR THEN pos + offset
                  ELSE SectionEnd(section) + offset
    IN  IF whence \notin {SEEK_SET, SEEK_CUR, SEEK_END}
        THEN [err |-> TRUE, position |-> pos, val |-> 0]
        ELSE IF newpos < section.start
        THEN [err |-> TRUE, position |-> pos, val |-> 0]
        ELSE [err |-> FALSE, position |-> newpos, val |-> tell(section, newpos)]

\* ReolinkFirmware.sha256: seek(0), then read blocks of ONEMIB until b''
RECURSIVE ShaLoop(_, _)
ShaLoop(p, fed) ==
    LET r == FdRead(p, ONEMIB)
    IN  IF r.data = <<>> THEN [data |-> fed, pos |-> r.pos]
        ELSE ShaLoop(r.pos, fed \o r.data)

\* the record of a call: the operation, the window, the cursor (_position) it
\* found, and what it returned (ValueError, bytes, or the int of seek)
NoRet == [op |-> "none", w |-> 0, at |-> 0, err |-> FALSE, data |-> <<>>, val |-> 0]

\* the value of a call that has not returned yet
Pending == [t |-> "pending", v |-> 0]

NoInput == [cmd |-> "api", json |-> FALSE, kind |-> "neither", paks |-> << >>]

FacIdle ==
    /\ inp = NoInput
    /\ fpc = "idle"
    /\ idx = 0
    /\ stage = 0
    /\ info = << >>
    /\ exc = ""
    /\ exitcode = None
    /\ stderr = FALSE
    /\ printed = 0

NoCall == [fn |-> "none"]

CallIdle ==
    /\ call = NoCall
    /\ result = Pending

\* the values of the lazily computed fields: None, DUMMY, and the value the
\* n-th run of a computation gave
NoneV == [t |-> "None", n |-> 0]
DUMMY == [t |-> "DUMMY", n |-> 0]
Value(t, n) == [t |-> t, n |-> n]

Items == {"uboot_section", "uboot", "kernel_section", "kernel", "fdt"}

\* the fields as ReolinkFirmware.__init__ sets them
NewMemo == [x \in Items |-> IF x = "fdt" THEN DUMMY ELSE NoneV]
NoRuns == [x \in Items |-> 0]
NoLast == [op |-> "none", v |-> NoneV, err |-> FALSE]
NoImg == [uboot_fails |-> FALSE, kernel_fails |-> FALSE, fdt_at |-> "nowhere",
          fdt_fails |-> FALSE]

MemoIdle ==
    /\ img = NoImg
    /\ memo = NewMemo
    /\ runs = NoRuns
    /\ last = NoLast

\* the paths extract can write under dest: the four files, and one file
\* standing for the tree of a file-system section in each of the directories
\* a section can go to
Paths ==
    {<<"uboot">>, <<"kernel">>, <<".config">>, <<"camera.dts">>}
        \cup {<<r, "*">> : r \in {"fs", "rootfs"}}
        \cup {<<r, "mnt", "app", "*">> : r \in {"fs", "rootfs"}}

NoFirmware == [fs |-> << >>, kcfg |-> FALSE, fdt |-> FALSE, decode |-> "ok",
               force |-> FALSE, dest |-> "absent", old |-> {}]

ExtIdle ==
    /\ xin = NoFirmware
    /\ disk = [p \in Paths |-> "absent"]
    /\ xpc = "idle"
    /\ xi = 0
    /\ rootfsdir = ""
    /\ out = << >>
    /\ xerr = ""

LzIdle ==
    /\ res = << >>
    /\ fpos = 0
    /\ lzpc = "idle"

CloIdle == opened = {}

UrlIdle ==
    /\ cachedir = << >>
    /\ asked = << >>
    /\ served = [t |-> "none", from |-> "", content |-> [kind |-> "absent", of |-> ""]]
    /\ fetches = 0
    /\ made = {}

TmpIdle ==
    /\ held = {}
    /\ tpc = "idle"

LateIdle == LzIdle /\ CloIdle /\ UrlIdle /\ TmpIdle

RestIdle == FacIdle /\ CallIdle /\ MemoIdle /\ ExtIdle /\ LateIdle

WinIdle ==
    /\ fdpos = 0
    /\ wsec = << >>
    /\ position = << >>
    /\ ret = NoRet
    /\ aloneFd = << >>
    /\ alonePos = << >>
    /\ aloneRet = NoRet

RefIdle ==
    /\ closefd = TRUE
    /\ fwFd = "fd"
    /\ open_files = 1
    /\ fdClosed = FALSE
    /\ files = << >>

NoSection == [name |-> "", len |-> 0, start |-> 0]
NoGot == [key |-> "", err |-> "", sec |-> NoSection]
NoError == [how |-> "", msg |-> ""]
NewFw ==
    [state |-> "new", error |-> "", uboot_section_name |-> "",
     kernel_section_name |-> "", sdict |-> << >>, fs_sections |-> << >>]

FwIdle ==
    /\ sections = << >>
    /\ fw = NewFw
    /\ got = NoGot
    /\ pc = "idle"
    /\ app = 0
    /\ fs = "None"
    /\ inner = "None"
    /\ error = NoError

GuessIdle ==
    /\ pak = [fit |-> 0, valid |-> {}]
    /\ guess = Pending

CoreIdle == WinIdle /\ RefIdle /\ GuessIdle /\ FwIdle

\* a window fresh from SectionFile.__init__ on each of the given sections
Opened(secs) ==
    /\ fdpos = 0
    /\ wsec = secs
    /\ position = [w \in DOMAIN secs |-> SectionFile_init(secs[w])]
    /\ ret = NoRet
    /\ aloneFd = [w \in DOMAIN secs |-> 0]
    /\ alonePos = position
    /\ aloneRet = NoRet

\* one window returned by ReolinkFirmware.open
InitWindow == RestIdle /\ RefIdle /\ GuessIdle /\ FwIdle /\ \E s \in Sections : Opened(<<s>>)

\* two windows returned by ReolinkFirmware.open, on the same section or on
\* a section and the one that follows it in the source; the first section
\* comes after a header of MaxStart bytes
InitShared ==
    /\ RestIdle
    /\ RefIdle
    /\ GuessIdle
    /\ FwIdle
    /\ \E s \in {x \in Sections : x.start = MaxStart}, l \in 0..MaxLen, same \in BOOLEAN :
        Opened(<<s, IF same THEN s ELSE [start |-> SectionEnd(s), len |-> l]>>)

Peek(w, size) ==
    LET r == SectionFile_peek(wsec[w], position[w], fdpos, size)
        a == SectionFile_peek(wsec[w], alonePos[w], aloneFd[w], size)
    IN  /\ position' = [position EXCEPT ![w] = r.position]
        /\ fdpos' = r.fd
        /\ ret' = [op |-> "peek", w |-> w, at |-> position[w], err |-> r.err, data |-> r.data, val |-> 0]
        /\ alonePos' = [alonePos EXCEPT ![w] = a.position]
        /\ aloneFd' = [aloneFd EXCEPT ![w] = a.fd]
        /\ aloneRet' = [op |-> "peek", w |-> w, at |-> alonePos[w],
                       err |-> a.err, data |-> a.data, val |-> 0]
        /\ UNCHANGED <<restVars, wsec, refVars, guessVars, fwVars>>

Read(w, size) ==
    LET r == SectionFile_read(wsec[w], position[w], fdpos, size)
        a == SectionFile_read(wsec[w], alonePos[w], aloneFd[w], size)
    IN  /\ position' = [position EXCEPT ![w] = r.position]
        /\ fdpos' = r.fd
        /\ ret' = [op |-> "read", w |-> w, at |-> position[w], err |-> r.err, data |-> r.data, val |-> 0]
        /\ alonePos' = [alonePos EXCEPT ![w] = a.position]
        /\ aloneFd' = [aloneFd EXCEPT ![w] = a.fd]
        /\ aloneRet' = [op |-> "read", w |-> w, at |-> alonePos[w],
                       err |-> a.err, data |-> a.data, val |-> 0]
        /\ UNCHANGED <<restVars, wsec, refVars, guessVars, fwVars>>

Seek(w, offset, whence) ==
    LET r == SectionFile_seek(wsec[w], position[w], offset, whence)
        a == SectionFile_seek(wsec[w], alonePos[w], offset, whence)
    IN  /\ r.position <= SectionEnd(wsec[w]) + MaxPast
        /\ position' = [position EXCEPT ![w] = r.position]
        /\ ret' = [op |-> "seek", w |-> w, at |-> position[w], err |-> r.err, data |-> <<>>, val |-> r.val]
        /\ alonePos' = [alonePos EXCEPT ![w] = a.position]
        /\ aloneRet' = [op |-> "seek", w |-> w, at |-> alonePos[w],
                       err |-> a.err, data |-> <<>>, val |-> a.val]
        /\ UNCHANGED <<restVars, wsec, fdpos, aloneFd, refVars, guessVars, fwVars>>

Sha256 ==
    LET r == ShaLoop(0, <<>>)
    IN  /\ fdpos' = r.pos
        /\ ret' = [op |-> "sha256", w |-> 0, at |-> 0, err |-> FALSE, data |-> r.data, val |-> 0]
        /\ aloneRet' = NoRet
        /\ UNCHANGED <<restVars, wsec, position, aloneFd, alonePos, refVars, guessVars, fwVars>>

NextWindow ==
    \/ \E w \in DOMAIN wsec, size \in Sizes : Peek(w, size)
    \/ \E w \in DOMAIN wsec, size \in Sizes : Read(w, size)
    \/ \E w \in DOMAIN wsec, whence \in Whences :
          \E offset \in (IF whence \in {SEEK_SET, SEEK_CUR, SEEK_END} THEN Offsets ELSE {0}) :
              Seek(w, offset, whence)
    \/ Sha256

\* the operations of one window, and sha256 of the firmware object
SpecWindow == InitWindow /\ [][NextWindow]_vars

\* the operations of two windows over the same source, and sha256
SpecShared == InitShared /\ [][NextWindow]_vars

----------------------------------------------------------------------------
(* Ownership of the byte source: ReolinkFirmware counts the firmware       *)
(* object and the windows it handed out in _open_files; _fdclose closes    *)
(* the source when the count reaches zero and closefd is set.              *)

\* _fdclose that closes the source whatever the count
fdclose_uncounted(count, cfd, closed) ==
    [open_files |-> count - 1, fdClosed |-> closed \/ cfd]

\* ReolinkFirmware._fdclose(fd): the count and the state of fd after it
fdclose(count, cfd, closed) ==
    [open_files |-> count - 1,
     fdClosed |-> closed \/ (cfd /\ count - 1 = 0)]

\* ReolinkFirmware.__init__ (from_fd / from_file / from_bytes), closefd given
InitRef ==
    /\ RestIdle
    /\ WinIdle
    /\ GuessIdle
    /\ FwIdle
    /\ closefd \in BOOLEAN
    /\ fwFd = "fd"
    /\ open_files = 1
    /\ fdClosed = FALSE
    /\ files = << >>

\* ReolinkFirmware.open(section): SectionFile(self._fd, section, self._fdclose)
open ==
    /\ Len(files) < MaxFiles
    /\ open_files' = open_files + 1
    /\ files' = Append(files, [fd |-> fwFd, closed |-> FALSE, given |-> fwFd = "fd"])
    /\ UNCHANGED <<restVars, closefd, fwFd, fdClosed, winVars, guessVars, fwVars>>

\* ReolinkFirmware.close(), also run by __del__ and on leaving a with block
close ==
    IF fwFd # "None"
    THEN LET r == fdclose(open_files, closefd, fdClosed)
         IN  /\ open_files' = r.open_files
             /\ fdClosed' = r.fdClosed
             /\ fwFd' = "None"
             /\ UNCHANGED <<restVars, closefd, files, winVars, guessVars, fwVars>>
    ELSE UNCHANGED vars

\* SectionFile.close() of the i-th window, also run on leaving a with block
SectionFile_close(i) ==
    IF files[i].fd # "None"
    THEN LET r == fdclose(open_files, closefd, fdClosed)
         IN  /\ open_files' = r.open_files
             /\ fdClosed' = r.fdClosed
             /\ files' = [files EXCEPT ![i] = [@ EXCEPT !.fd = "None", !.closed = TRUE]]
             /\ UNCHANGED <<restVars, closefd, fwFd, winVars, guessVars, fwVars>>
    ELSE /\ files' = [files EXCEPT ![i] = [@ EXCEPT !.closed = TRUE]]
         /\ UNCHANGED <<restVars, closefd, fwFd, open_files, fdClosed, winVars, guessVars, fwVars>>

NextRef ==
    \/ open
    \/ close
    \/ \E i \in DOMAIN files : SectionFile_close(i)

\* any interleaving of open, close and SectionFile.close on one firmware object
SpecRef == InitRef /\ [][NextRef]_vars

----------------------------------------------------------------------------
(* mypakler: the number of sections of a PAK is not stored in its header;  *)
(* guess_section_count tries counts until read_header accepts one.         *)
(* pak.fit is the largest count whose header still fits in the bytes and   *)
(* pak.valid the counts whose header pakler.Header parses.                 *)

\* range(a, b) as a sequence
range(a, b) == [i \in 1..(IF b > a THEN b - a ELSE 0) |-> a + i - 1]

\* read_header(pakbytes, section_count) returns rather than raising
read_header(p, section_count) ==
    /\ section_count <= p.fit
    /\ section_count \in p.valid

\* itertools.chain(range(8, 14), range(1, 8), range(14, 30))
Candidates == range(8, 14) \o range(1, 8) \o range(14, 30)

\* guess_section_count(pakbytes): the first candidate read_header accepts
guess_section_count(p) ==
    LET hits == {k \in DOMAIN Candidates : read_header(p, Candidates[k])}
    IN  IF hits = {} THEN None
        ELSE Int_(Candidates[CHOOSE k \in hits : \A j \in hits : k <= j])


InitGuess ==
    /\ RestIdle
    /\ WinIdle
    /\ RefIdle
    /\ FwIdle
    /\ \E fit \in 0..MaxCount, a, b \in 0..MaxCount :
          pak = [fit |-> fit, valid |-> {a, b} \ {0}]
    /\ guess = Pending

GuessSectionCount ==
    /\ guess = Pending
    /\ guess' = guess_section_count(pak)
    /\ UNCHANGED <<restVars, pak, winVars, refVars, fwVars>>

NextGuess == GuessSectionCount

SpecGuess == InitGuess /\ [][NextGuess]_vars

----------------------------------------------------------------------------
(* ReolinkFirmware: the facade over a parsed PAK. A section is its name,   *)
(* its length and its start offset; the start offsets of a table differ,   *)
(* so two sections of the same name are told apart.                        *)

UBOOT_SECTIONS == {"uboot", "uboot1", "BOOT"}
KERNEL_SECTIONS == {"kernel", "KERNEL"}
ROOTFS_SECTIONS == {"fs", "rootfs"}
FS_SECTIONS == ROOTFS_SECTIONS \cup {"app"}

\* the sections a table of the model is made of: (name, len)
Kinds ==
    {<<"uboot", 1>>, <<"uboot", 0>>, <<"BOOT", 1>>, <<"kernel", 1>>,
     <<"kernel", 0>>, <<"fs", 1>>, <<"rootfs", 1>>, <<"app", 1>>}

\* for section in self, from the i-th on: the indexes, in PAK order, of the
\* sections named in names (of nonzero length only, when nonempty is set)
RECURSIVE Select(_, _, _, _)
Select(secs, names, nonempty, i) ==
    IF i > Len(secs) THEN << >>
    ELSE (IF secs[i].name \in names /\ (nonempty => secs[i].len # 0)
          THEN <<i>> ELSE << >>) \o Select(secs, names, nonempty, i + 1)

\* _get_uboot_section_name that does not look at the length
get_uboot_section_name_anylen(secs) ==
    LET hit == Select(secs, UBOOT_SECTIONS, FALSE, 1)
    IN  IF hit = << >> THEN [found |-> FALSE, name |-> ""]
        ELSE [found |-> TRUE, name |-> secs[hit[1]].name]

\* ReolinkFirmware._get_uboot_section_name
get_uboot_section_name(secs) ==
    LET hit == Select(secs, UBOOT_SECTIONS, TRUE, 1)
    IN  IF hit = << >> THEN [found |-> FALSE, name |-> ""]
        ELSE [found |-> TRUE, name |-> secs[hit[1]].name]

\* ReolinkFirmware._get_kernel_section_name
get_kernel_section_name(secs) ==
    LET hit == Select(secs, KERNEL_SECTIONS, TRUE, 1)
    IN  IF hit = << >> THEN [found |-> FALSE, name |-> ""]
        ELSE [found |-> TRUE, name |-> secs[hit[1]].name]

\* {s.name: s for s in self}: a later section replaces an earlier one of its name
sdict_of(secs) ==
    [n \in {secs[i].name : i \in DOMAIN secs} |->
        CHOOSE i \in DOMAIN secs :
            /\ secs[i].name = n
            /\ \A j \in DOMAIN secs : secs[j].name = n => j <= i]

\* [s for s in self if s.name in FS_SECTIONS]
fs_sections_of(secs) == Select(secs, FS_SECTIONS, FALSE, 1)

\* ReolinkFirmware.__init__ on a PAK whose header pakler has parsed
ReolinkFirmware_init(secs) ==
    LET u == get_uboot_section_name(secs)
        k == get_kernel_section_name(secs)
    IN  IF ~u.found THEN [NewFw EXCEPT !.state = "failed", !.error = "U-Boot section not found"]
        ELSE IF ~k.found
        THEN [NewFw EXCEPT !.state = "failed", !.error = "Kernel section not found",
                           !.uboot_section_name = u.name]
        ELSE [state |-> "ok", error |-> "", uboot_section_name |-> u.name,
              kernel_section_name |-> k.name, sdict |-> sdict_of(secs),
              fs_sections |-> fs_sections_of(secs)]

\* str.lower() on the keys of the model
lower(key) ==
    CASE key = "UBoot" -> "uboot"
      [] key = "KERNEL" -> "kernel"
      [] key = "BOOT" -> "boot"
      [] OTHER -> key

Keys == {"uboot", "UBoot", "kernel", "KERNEL", "BOOT", "app", "fdt"}

\* ReolinkFirmware.__getitem__(key) for a str key
getitem(f, secs, key) ==
    LET k == IF lower(key) = "uboot" THEN f.uboot_section_name
             ELSE IF lower(key) = "kernel" THEN f.kernel_section_name
             ELSE key
    IN  IF k \in DOMAIN f.sdict
        THEN [key |-> key, err |-> "", sec |-> secs[f.sdict[k]]]
        ELSE [key |-> key, err |-> "KeyError", sec |-> NoSection]

\* the section table made of the given kinds, the i-th section starting at i
Table(k) == [i \in DOMAIN k |-> [name |-> k[i][1], len |-> k[i][2], start |-> i]]

InitFw ==
    /\ RestIdle
    /\ WinIdle
    /\ RefIdle
    /\ GuessIdle
    /\ \E n \in 0..MaxSections : \E k \in [1..n -> Kinds] : sections = Table(k)
    /\ fw = NewFw
    /\ got = NoGot
    /\ pc = "idle"
    /\ app = 0
    /\ fs = "None"
    /\ inner = "None"
    /\ error = NoError

\* ReolinkFirmware(fd): the constructor runs once
Construct ==
    /\ fw.state = "new"
    /\ fw' = ReolinkFirmware_init(sections)
    /\ UNCHANGED <<restVars, sections, got, pc, app, fs, inner, error, winVars, refVars, guessVars>>

\* fw[key]
GetItem(key) ==
    /\ fw.state = "ok"
    /\ got' = getitem(fw, sections, key)
    /\ UNCHANGED <<restVars, sections, fw, pc, app, fs, inner, error, winVars, refVars, guessVars>>

NextFw ==
    \/ Construct
    \/ \E key \in Keys : GetItem(key)

\* construction of a firmware object and lookups of its sections
SpecFw == InitFw /\ [][NextFw]_vars

----------------------------------------------------------------------------
(* ReolinkFirmware.get_info: the file system of the application section is *)
(* told from its first four bytes and handed to the reader of its kind.    *)
(* pc follows the call: START (sha256 computed), READ_MAGIC (section       *)
(* opened, magic read), SQUASHFS_READ / CRAMFS_READ / UBIFS_READ (inside   *)
(* the reader of that kind), UBI_UNWRAP (inside get_fs_from_ubi),          *)
(* INNER_MAGIC                                                             *)
(* (magic of the unwrapped bytes read), METADATA_DONE (files obtained),    *)
(* FAIL (an error returned or raised).                                     *)

\* what the first four bytes of a section can be: the magic of each
\* FileType, four other bytes, or nothing (empty section)
Magics == {"CRAMFS_MAGIC", "LZ4_MAGIC", "SQUASHFS_MAGIC", "UBI_MAGIC",
           "UBIFS_MAGIC", "UIMAGE_MAGIC", "other", ""}

\* FileType.from_magic(key)
from_magic(key) ==
    CASE key = "CRAMFS_MAGIC" -> "CRAMFS"
      [] key = "LZ4_MAGIC" -> "LZ4_LEGACY_FRAME"
      [] key = "SQUASHFS_MAGIC" -> "SQUASHFS"
      [] key = "UBI_MAGIC" -> "UBI"
      [] key = "UBIFS_MAGIC" -> "UBIFS"
      [] key = "UIMAGE_MAGIC" -> "UIMAGE"
      [] OTHER -> "None"

\* app = self._fs_sections[-1]; 0 stands for the IndexError of an empty list
app_section(f) ==
    IF f.fs_sections = << >> THEN 0 ELSE f.fs_sections[Len(f.fs_sections)]

\* the if / elif chain of get_info with SquashFS sent to the CramFS reader
get_info_dispatch_swapped(t) ==
    CASE t = "CRAMFS" -> [pc |-> "CRAMFS_READ", error |-> NoError]
      [] t = "UBI" -> [pc |-> "UBI_UNWRAP", error |-> NoError]
      [] t = "SQUASHFS" -> [pc |-> "CRAMFS_READ", error |-> NoError]
      [] OTHER -> [pc |-> "FAIL",
                   error |-> [how |-> "returned", msg |-> "Unrecognized image type"]]

\* the if / elif chain of get_info on fs
get_info_dispatch(t) ==
    CASE t = "CRAMFS" -> [pc |-> "CRAMFS_READ", error |-> NoError]
      [] t = "UBI" -> [pc |-> "UBI_UNWRAP", error |-> NoError]
      [] t = "SQUASHFS" -> [pc |-> "SQUASHFS_READ", error |-> NoError]
      [] OTHER -> [pc |-> "FAIL",
                   error |-> [how |-> "returned", msg |-> "Unrecognized image type"]]

\* the if / elif chain of get_files_from_ubi on the inner fs
get_files_from_ubi_dispatch(t) ==
    CASE t = "UBIFS" -> [pc |-> "UBIFS_READ", error |-> NoError]
      [] t = "SQUASHFS" -> [pc |-> "SQUASHFS_READ", error |-> NoError]
      [] OTHER -> [pc |-> "FAIL",
                   error |-> [how |-> "raised", msg |-> "Unknown file system in UBI"]]

\* get_info(): ha = await asyncio.to_thread(self.sha256)
GetInfo ==
    /\ fw.state = "ok"
    /\ pc = "idle"
    /\ pc' = "START"
    /\ UNCHANGED <<restVars, sections, fw, got, app, fs, inner, error, winVars, refVars, guessVars>>

\* app = self._fs_sections[-1]; with self.open(app) as f: fs = from_magic(f.read(4))
ReadMagic ==
    /\ pc = "START"
    /\ app' = app_section(fw)
    /\ IF app' = 0
       THEN /\ pc' = "FAIL"
            /\ error' = [how |-> "raised", msg |-> "IndexError"]
            /\ fs' = fs
       ELSE /\ \E m \in Magics : fs' = from_magic(m)
            /\ pc' = "READ_MAGIC"
            /\ error' = error
    /\ UNCHANGED <<restVars, sections, fw, got, inner, winVars, refVars, guessVars>>

\* if fs == CRAMFS ... elif fs == UBI ... elif fs == SQUASHFS ... else return error
Dispatch ==
    /\ pc = "READ_MAGIC"
    /\ pc' = get_info_dispatch(fs).pc
    /\ error' = get_info_dispatch(fs).error
    /\ UNCHANGED <<restVars, sections, fw, got, app, fs, inner, winVars, refVars, guessVars>>

\* get_files_from_ubi: fsbytes = get_fs_from_ubi(...), which may raise;
\* fs = from_magic(fsbytes[:4])
UbiUnwrap ==
    /\ pc = "UBI_UNWRAP"
    /\ \/ /\ pc' = "FAIL"
          /\ error' = [how |-> "raised", msg |-> "get_fs_from_ubi"]
          /\ inner' = inner
       \/ /\ \E m \in Magics : inner' = from_magic(m)
          /\ pc' = "INNER_MAGIC"
          /\ error' = error
    /\ UNCHANGED <<restVars, sections, fw, got, app, fs, winVars, refVars, guessVars>>

\* if fs == UBIFS ... elif fs == SQUASHFS ... raise
InnerDispatch ==
    /\ pc = "INNER_MAGIC"
    /\ pc' = get_files_from_ubi_dispatch(inner).pc
    /\ error' = get_files_from_ubi_dispatch(inner).error
    /\ UNCHANGED <<restVars, sections, fw, got, app, fs, inner, winVars, refVars, guessVars>>

\* get_files_from_squashfs / get_files_from_cramfs / get_files_from_ubifs
\* returns the files or raises
Reader ==
    /\ pc \in {"SQUASHFS_READ", "CRAMFS_READ", "UBIFS_READ"}
    /\ \/ /\ pc' = "METADATA_DONE"
          /\ error' = error
       \/ /\ pc' = "FAIL"
          /\ error' = [how |-> "raised", msg |-> pc]
    /\ UNCHANGED <<restVars, sections, fw, got, app, fs, inner, winVars, refVars, guessVars>>

NextInfo ==
    \/ Construct
    \/ GetInfo
    \/ ReadMagic
    \/ Dispatch
    \/ UbiUnwrap
    \/ InnerDispatch
    \/ Reader

\* construction of a firmware object and one call of get_info
SpecInfo == InitFw /\ [][NextInfo]_vars

----------------------------------------------------------------------------
(* firmware_info: the reports of the PAKs of one archive. A PAK of the     *)
(* model is the statement of its pipeline that fails, if any; get_info is  *)
(* walked statement by statement, and none of its statements sits in a     *)
(* try block.                                                              *)

\* largest number of PAKs in one archive
MaxPaks == 2

\* the statements of get_info, in the order they run
Stages ==
    <<"sha256", "app", "files", "kernel_image_header", "uboot_info",
      "info_from_files", "linux_banner", "board", "board_vendor", "filesystems">>

\* what can go wrong with a PAK: at is the statement that fails ("" when
\* none does, "construct" for ReolinkFirmware.__init__, "extract" for
\* ReolinkFirmware.extract), how tells an error that is returned from one
\* that is raised
NoFate == [at |-> "", how |-> "", msg |-> ""]
Fates ==
    {NoFate,
     [at |-> "construct", how |-> "raised", msg |-> "Kernel section not found"],
     [at |-> "app", how |-> "raised", msg |-> "IndexError"],
     [at |-> "files", how |-> "returned", msg |-> "Unrecognized image type"],
     [at |-> "files", how |-> "raised", msg |-> "Unknown file system in UBI"],
     [at |-> "uboot_info", how |-> "raised", msg |-> "Unexpected compression"],
     [at |-> "info_from_files", how |-> "raised", msg |-> "AttributeError"],
     [at |-> "linux_banner", how |-> "raised", msg |-> "'System halted' string not found"],
     [at |-> "linux_banner", how |-> "raised", msg |-> "No known compression found in kernel"],
     [at |-> "board", how |-> "raised", msg |-> "FdtBlobParse"],
     [at |-> "extract", how |-> "raised", msg |-> "FileExistsError"]}

\* the steps the specification calls optional
OptionalStages == {"linux_banner", "board"}

\* a report: the PAK it is about (0 for a report about the whole archive),
\* its error ("" when it has none)
Report(p, msg) == [pak |-> p, error |-> msg]

InitFacade ==
    /\ CoreIdle
    /\ LateIdle
    /\ CallIdle
    /\ MemoIdle
    /\ ExtIdle
    /\ \E cmd \in {"api", "info", "extract"}, j \in BOOLEAN,
          kind \in {"pak", "zip", "neither"}, n \in 0..MaxPaks :
          \E paks \in [1..n -> Fates] :
              /\ cmd # "info" => ~j
              /\ kind = "pak" => n = 1
              /\ kind = "neither" => n = 0
              /\ inp = [cmd |-> cmd, json |-> j, kind |-> kind, paks |-> paks]
    /\ fpc = "idle"
    /\ idx = 0
    /\ stage = 0
    /\ info = << >>
    /\ exc = ""
    /\ exitcode = None
    /\ stderr = FALSE
    /\ printed = 0

\* firmwares_from_file(file_or_url): the list of firmwares, or the exception
firmwares_from_file(i) ==
    IF i.kind = "neither" THEN [exc |-> "Not a URL or file", fws |-> 0]
    ELSE IF \E k \in DOMAIN i.paks : i.paks[k].at = "construct"
    THEN [exc |-> "Kernel section not found", fws |-> 0]
    ELSE [exc |-> "", fws |-> Len(i.paks)]

\* firmware_info: try: fws = await firmwares_from_file(...) except Exception:
\* return [error]; if not fws: return [error]
FirmwareInfo ==
    /\ inp.cmd \in {"api", "info"}
    /\ fpc = "idle"
    /\ LET r == firmwares_from_file(inp)
       IN  IF r.exc # ""
           THEN info' = <<Report(0, r.exc)>> /\ fpc' = "returned" /\ idx' = idx
           ELSE IF r.fws = 0
           THEN /\ info' = <<Report(0, "No PAKs found in ZIP file")>>
                /\ fpc' = "returned" /\ idx' = idx
           ELSE info' = info /\ fpc' = "get_info" /\ idx' = 1
    /\ stage' = IF fpc' = "get_info" THEN 1 ELSE stage
    /\ opened' = IF fpc' = "get_info" THEN 1..Len(inp.paks) ELSE opened
    /\ UNCHANGED <<coreVars, notCloVars, callVars, memoVars, extVars, inp, exc, exitcode, stderr, printed>>

\* one statement of fw.get_info() inside the list comprehension of
\* firmware_info; after the last PAK: for _, fw in fws: fw.close(); return info;
\* nothing stands between a raising get_info and the caller
GetInfoStage ==
    /\ fpc = "get_info"
    /\ LET fate == inp.paks[idx]
           lastPak == idx = Len(inp.paks)
       IN  IF fate.at = Stages[stage] /\ fate.how = "raised"
           THEN /\ fpc' = "raised"
                /\ exc' = fate.msg
                /\ UNCHANGED <<idx, stage, info, opened>>
           ELSE IF (fate.at = Stages[stage] /\ fate.how = "returned") \/ stage = Len(Stages)
           THEN /\ info' = Append(info, Report(idx, IF fate.at = Stages[stage]
                                                    THEN fate.msg ELSE ""))
                /\ idx' = IF lastPak THEN idx ELSE idx + 1
                /\ stage' = IF lastPak THEN stage ELSE 1
                /\ fpc' = IF lastPak THEN "returned" ELSE fpc
                /\ exc' = exc
                /\ opened' = IF lastPak THEN {} ELSE opened
           ELSE /\ stage' = stage + 1
                /\ UNCHANGED <<fpc, idx, info, exc, opened>>
    /\ UNCHANGED <<coreVars, notCloVars, callVars, memoVars, extVars, inp, exitcode, stderr, printed>>

\* __main__.info in plain-text mode: for idx, info in enumerate(pak_infos):
\* if "error" in info: raise Exception(info["error"]); else print the block
PrintReport ==
    /\ inp.cmd = "info" /\ ~inp.json
    /\ fpc = "returned"
    /\ IF printed = Len(info)
       THEN fpc' = "finished" /\ UNCHANGED <<exc, printed>>
       ELSE IF info[printed + 1].error # ""
       THEN fpc' = "raised" /\ exc' = info[printed + 1].error /\ printed' = printed
       ELSE printed' = printed + 1 /\ UNCHANGED <<fpc, exc>>
    /\ UNCHANGED <<coreVars, notCloVars, callVars, memoVars, extVars, inp, idx, stage, info, exitcode, stderr, opened>>

\* __main__.info in JSON mode: print(json.dumps(pak_infos, ...))
PrintJson ==
    /\ inp.cmd = "info" /\ inp.json
    /\ fpc = "returned"
    /\ printed' = Len(info)
    /\ fpc' = "finished"
    /\ UNCHANGED <<coreVars, notCloVars, callVars, memoVars, extVars, inp, idx, stage, info, exc, exitcode, stderr, opened>>

\* __main__.extract: fws = await firmwares_from_file(...);
\* if not fws: raise Exception("No PAKs found in ZIP file")
Extract ==
    /\ inp.cmd = "extract"
    /\ fpc = "idle"
    /\ LET r == firmwares_from_file(inp)
       IN  IF r.exc # "" THEN fpc' = "raised" /\ exc' = r.exc /\ idx' = idx
           ELSE IF r.fws = 0
           THEN fpc' = "raised" /\ exc' = "No PAKs found in ZIP file" /\ idx' = idx
           ELSE fpc' = "extract" /\ exc' = exc /\ idx' = 1
    /\ opened' = IF fpc' = "extract" THEN 1..Len(inp.paks) ELSE opened
    /\ UNCHANGED <<coreVars, notCloVars, callVars, memoVars, extVars, inp, stage, info, exitcode, stderr, printed>>

\* whether fw.extract raises on a PAK: extract_file_system on an unknown file
\* system, self.uboot, self.kernel, self.fdt, or a destination that exists
extract_raises(fate) ==
    fate.at \in {"extract", "files", "uboot_info", "linux_banner", "board"}

\* __main__.extract: for pakname, fw in fws: with fw: fw.extract(dest / name, force)
ExtractPak ==
    /\ fpc = "extract"
    /\ IF extract_raises(inp.paks[idx])
       THEN fpc' = "raised" /\ exc' = inp.paks[idx].msg /\ idx' = idx
       ELSE /\ exc' = exc
            /\ idx' = IF idx = Len(inp.paks) THEN idx ELSE idx + 1
            /\ fpc' = IF idx = Len(inp.paks) THEN "finished" ELSE fpc
    /\ opened' = opened \ {idx}
    /\ UNCHANGED <<coreVars, notCloVars, callVars, memoVars, extVars, inp, stage, info, exitcode, stderr, printed>>

\* main: try: asyncio.run(args.func(args)) except Exception as e:
\* sys.exit(f"error: {e}"), which writes the message to stderr and exits 1
main_exit(raised) ==
    [exitcode |-> Int_(IF raised THEN 1 ELSE 0), stderr |-> raised]

Main ==
    /\ inp.cmd \in {"info", "extract"}
    /\ fpc \in {"raised", "finished"}
    /\ exitcode = None
    /\ exitcode' = main_exit(fpc = "raised").exitcode
    /\ stderr' = main_exit(fpc = "raised").stderr
    /\ UNCHANGED <<coreVars, notCloVars, callVars, memoVars, extVars, inp, fpc, idx, stage, info, exc, printed, opened>>

NextFacade ==
    \/ FirmwareInfo
    \/ GetInfoStage
    \/ PrintReport
    \/ PrintJson
    \/ Extract
    \/ ExtractPak
    \/ Main

\* firmware_info called as a library function, and the two subcommands
SpecFacade == InitFacade /\ [][NextFacade]_vars

----------------------------------------------------------------------------
(* The metadata bundle: get_files_from_squashfs / _cramfs / _ubifs / _ubi. *)
(* An image of the model says, for each of the names of FILES, whether a   *)
(* file of that name stands at the image root and whether one stands under *)
(* /mnt/app; the content of a file is modelled by the place it was read    *)
(* from.                                                                   *)

FILES == <<"version_file", "dvr.xml", "dvr", "router">>
FileNames == {FILES[i] : i \in DOMAIN FILES}

\* image.select(name) with a relative name, then file.read_bytes()
select_root(image, name) == IF name \in image.root THEN "root" ELSE "None"

\* image.select(posixpath.join("/mnt/app", name)), then file.read_bytes()
select_mnt_app(image, name) == IF name \in image.mnt THEN "/mnt/app" ELSE "None"

\* get_files_from_squashfs: image.select(name) or image.select(path2)
get_files_from_squashfs(image) ==
    [name \in FileNames |->
        IF select_root(image, name) # "None" THEN select_root(image, name)
        ELSE select_mnt_app(image, name)]

\* get_files_from_ubifs: image.select(name)
get_files_from_ubifs(image) == [name \in FileNames |-> select_root(image, name)]

\* get_files_from_cramfs: cramfs.select(name)
get_files_from_cramfs(image) == [name \in FileNames |-> select_root(image, name)]

\* get_files_from_ubi: the reader of the file system inside the volume
get_files_from_ubi(image) ==
    IF get_files_from_ubi_dispatch(image.inner).pc = "UBIFS_READ"
    THEN [t |-> "files", v |-> get_files_from_ubifs(image)]
    ELSE IF get_files_from_ubi_dispatch(image.inner).pc = "SQUASHFS_READ"
    THEN [t |-> "files", v |-> get_files_from_squashfs(image)]
    ELSE [t |-> "raised", v |-> get_files_from_ubi_dispatch(image.inner).error.msg]

\* an application section: the file system at its start, the one inside the
\* UBI volume when it is UBI, and the files it holds
InitFiles ==
    /\ CoreIdle
    /\ LateIdle
    /\ FacIdle
    /\ MemoIdle
    /\ ExtIdle
    /\ \E t \in {"CRAMFS", "SQUASHFS", "UBI"}, i \in {"UBIFS", "SQUASHFS", "None"},
          r \in SUBSET FileNames, m \in SUBSET FileNames :
          /\ t # "UBI" => i = "None"
          /\ call = [fn |-> "get_files", fs |-> t, inner |-> i, root |-> r, mnt |-> m]
    /\ result = Pending

\* files = get_files_from_cramfs(f, 0, False)
GetFilesFromCramfs ==
    /\ result.t = "pending"
    /\ call.fs = "CRAMFS"
    /\ result' = [t |-> "files", v |-> get_files_from_cramfs(call)]
    /\ UNCHANGED <<coreVars, lateVars, facVars, memoVars, extVars, call>>

\* files = get_files_from_squashfs(f, 0, False)
GetFilesFromSquashfs ==
    /\ result.t = "pending"
    /\ call.fs = "SQUASHFS"
    /\ result' = [t |-> "files", v |-> get_files_from_squashfs(call)]
    /\ UNCHANGED <<coreVars, lateVars, facVars, memoVars, extVars, call>>

\* files = get_files_from_ubi(f, app.len, 0)
GetFilesFromUbi ==
    /\ result.t = "pending"
    /\ call.fs = "UBI"
    /\ result' = get_files_from_ubi(call)
    /\ UNCHANGED <<coreVars, lateVars, facVars, memoVars, extVars, call>>

NextFiles ==
    \/ GetFilesFromCramfs
    \/ GetFilesFromSquashfs
    \/ GetFilesFromUbi

\* the metadata files read from one application section
SpecFiles == InitFiles /\ [][NextFiles]_vars

----------------------------------------------------------------------------
(* ReolinkFirmware.get_fs_info: the `filesystems` entries of the report.   *)
(* A section of the model carries the magic at its start and the magic at  *)
(* offset 266240, where the volume of a UBI image of these firmwares       *)
(* starts.                                                                 *)

\* f.seek(266240)
UBI_VOLUME_OFFSET == 266240

\* f.seek(offset); f.read(4) on a fresh window of the section: the magic
\* standing there, fewer than four bytes, or nothing at or past the end
read_magic(sec, offset) ==
    IF offset >= sec.len THEN ""
    ELSE IF offset + 4 > sec.len THEN "other"
    ELSE IF offset = 0 THEN sec.magic
    ELSE sec.volume

\* fs.name.lower() if fs is not None else "unknown"
type_name(t) ==
    CASE t = "CRAMFS" -> "cramfs"
      [] t = "LZ4_LEGACY_FRAME" -> "lz4_legacy_frame"
      [] t = "SQUASHFS" -> "squashfs"
      [] t = "UBI" -> "ubi"
      [] t = "UBIFS" -> "ubifs"
      [] t = "UIMAGE" -> "uimage"
      [] OTHER -> "unknown"

\* the body of the loop of get_fs_info without the second read
fs_entry_outer(sec) ==
    [name |-> sec.name, type |-> type_name(from_magic(read_magic(sec, 0)))]

\* the body of the loop of get_fs_info: the entry of one section
fs_entry(sec) ==
    LET t == from_magic(read_magic(sec, 0))
        t2 == IF t = "UBI" THEN from_magic(read_magic(sec, UBI_VOLUME_OFFSET)) ELSE t
    IN  [name |-> sec.name, type |-> type_name(t2)]

\* get_fs_info: one entry per section of _fs_sections, in order
get_fs_info(secs) == [i \in DOMAIN secs |-> fs_entry(secs[i])]

\* the file-system sections of the model: short ones, one that ends where
\* the volume would start, one that ends inside its magic, and long ones
FsSections ==
    [name : FS_SECTIONS,
     len : {0, 4, UBI_VOLUME_OFFSET, UBI_VOLUME_OFFSET + 3, UBI_VOLUME_OFFSET + 4},
     magic : {"SQUASHFS_MAGIC", "CRAMFS_MAGIC", "UBI_MAGIC", "other"},
     volume : {"SQUASHFS_MAGIC", "UBIFS_MAGIC", "UBI_MAGIC", "other"}]

InitFsInfo ==
    /\ CoreIdle
    /\ LateIdle
    /\ FacIdle
    /\ MemoIdle
    /\ ExtIdle
    /\ \E n \in 1..2 : \E secs \in [1..n -> FsSections] :
          /\ call = [fn |-> "get_fs_info", fs_sections |-> secs]
    /\ result = Pending

\* "filesystems": self.get_fs_info()
GetFsInfo ==
    /\ result.t = "pending"
    /\ call.fn = "get_fs_info"
    /\ result' = [t |-> "returned", v |-> get_fs_info(call.fs_sections)]
    /\ UNCHANGED <<coreVars, lateVars, facVars, memoVars, extVars, call>>

NextFsInfo == GetFsInfo

\* one call of get_fs_info on the file-system sections of a firmware
SpecFsInfo == InitFsInfo /\ [][NextFsInfo]_vars

----------------------------------------------------------------------------
(* util.make_cache_file: the download is kept in <tempdir>/reolinkfwcache  *)
(* unless the disk is short of free space or the directory has grown large. *)

\* util.ONEGIB
ONEGIB == 1073741824

\* how far from ONEGIB the free space and the directory size of the model go
MaxSlack == 2

\* make_cache_file(url, filebytes, name): what it returns and the files it
\* wrote; c.oserror names the open() that fails, if any
make_cache_file(c) ==
    IF c.tempdir = "file" THEN [t |-> "raised", v |-> FALSE, written |-> {}]
    ELSE IF c.free < ONEGIB \/ c.dir_size > ONEGIB
    THEN [t |-> "returned", v |-> FALSE, written |-> {}]
    ELSE IF c.oserror = "name"
    THEN [t |-> "returned", v |-> FALSE, written |-> {}]
    ELSE IF c.named /\ c.oserror = "sha"
    THEN [t |-> "returned", v |-> FALSE, written |-> {"name"}]
    ELSE [t |-> "returned", v |-> TRUE,
          written |-> IF c.named THEN {"name", "sha"} ELSE {"name"}]

InitCache ==
    /\ CoreIdle
    /\ LateIdle
    /\ FacIdle
    /\ MemoIdle
    /\ ExtIdle
    /\ \E free \in (ONEGIB - MaxSlack)..(ONEGIB + MaxSlack),
          size \in {0} \cup (ONEGIB - MaxSlack)..(ONEGIB + MaxSlack),
          td \in {"dir", "absent", "file"}, named \in BOOLEAN,
          e \in {"none", "name", "sha"} :
          call = [fn |-> "make_cache_file", free |-> free, dir_size |-> size,
                  tempdir |-> td, named |-> named, oserror |-> e]
    /\ result = Pending

\* if use_cache: make_cache_file(file_or_url, zip_or_pak_bytes, pakname)
MakeCacheFile ==
    /\ result.t = "pending"
    /\ call.fn = "make_cache_file"
    /\ result' = make_cache_file(call)
    /\ UNCHANGED <<coreVars, lateVars, facVars, memoVars, extVars, call>>

NextCache == MakeCacheFile

\* one call of make_cache_file
SpecCache == InitCache /\ [][NextCache]_vars

----------------------------------------------------------------------------
(* ReolinkFirmware._decompress_kernel: which decoder the kernel section is *)
(* handed to. The kernel section of the model is the sequence of the       *)
(* things found in it after the 64-byte legacy image header, body[1]       *)
(* standing immediately after the header: the anchor " -- System halted",  *)
(* the magic of a compression as RE_KERNEL_COMP spells it, "xz_bare" for   *)
(* the seven bytes of the XZ magic that RE_LZMA_OR_XZ accepts and the xz   *)
(* group of RE_KERNEL_COMP (one more byte, not followed by XZ) does not,   *)
(* or anything else.                                                       *)

\* largest number of things in the kernel section of the model
MaxKernel == 3

KernelTokens == {"other", "halt", "lz4", "xz", "xz_bare", "lzma", "gzip"}

\* RE_LZMA_OR_XZ.match(data, uimage_hdr_size)
RE_LZMA_OR_XZ_match(body) == body # << >> /\ body[1] \in {"lzma", "xz", "xz_bare"}

\* data.find(b" -- System halted"), from the i-th thing on; 0 stands for -1
RECURSIVE find_halt(_, _)
find_halt(body, i) ==
    IF i > Len(body) THEN 0
    ELSE IF body[i] = "halt" THEN i
    ELSE find_halt(body, i + 1)

\* RE_KERNEL_COMP.search(data, pos): the start of the leftmost match at or
\* after pos and the group that matched; start 0 stands for None
RECURSIVE RE_KERNEL_COMP_search(_, _)
RE_KERNEL_COMP_search(body, pos) ==
    IF pos > Len(body) THEN [start |-> 0, lastgroup |-> ""]
    ELSE IF body[pos] \in {"lz4", "xz", "lzma", "gzip"}
    THEN [start |-> pos, lastgroup |-> body[pos]]
    ELSE RE_KERNEL_COMP_search(body, pos + 1)

\* the decoder run on data[start:], or the exception raised
Decoded(decoder, start) == [t |-> "returned", v |-> decoder, start |-> start]
Raised(msg) == [t |-> "raised", v |-> msg, start |-> 0]

\* _decompress_kernel that searches the whole section for a magic
decompress_kernel_from_start(body) ==
    LET match == RE_KERNEL_COMP_search(body, 1)
    IN  IF RE_LZMA_OR_XZ_match(body) THEN Decoded("lzma.LZMADecompressor", 1)
        ELSE IF find_halt(body, 1) = 0 THEN Raised("'System halted' string not found")
        ELSE IF match.start = 0 THEN Raised("No known compression found in kernel")
        ELSE IF match.lastgroup = "lz4" THEN Decoded("lz4_legacy_decompress", match.start)
        ELSE IF match.lastgroup \in {"xz", "lzma"}
        THEN Decoded("lzma.LZMADecompressor", match.start)
        ELSE Decoded("zlib.decompress", match.start)

\* ReolinkFirmware._decompress_kernel
decompress_kernel(body) ==
    LET halt == find_halt(body, 1)
        match == RE_KERNEL_COMP_search(body, halt)
    IN  IF RE_LZMA_OR_XZ_match(body) THEN Decoded("lzma.LZMADecompressor", 1)
        ELSE IF halt = 0 THEN Raised("'System halted' string not found")
        ELSE IF match.start = 0 THEN Raised("No known compression found in kernel")
        ELSE IF match.lastgroup = "lz4" THEN Decoded("lz4_legacy_decompress", match.start)
        ELSE IF match.lastgroup \in {"xz", "lzma"}
        THEN Decoded("lzma.LZMADecompressor", match.start)
        ELSE IF match.lastgroup = "gzip" THEN Decoded("zlib.decompress", match.start)
        ELSE Raised("unreachable")

InitKernel ==
    /\ CoreIdle
    /\ LateIdle
    /\ FacIdle
    /\ MemoIdle
    /\ ExtIdle
    /\ \E n \in 0..MaxKernel : \E body \in [1..n -> KernelTokens] :
          call = [fn |-> "_decompress_kernel", body |-> body]
    /\ result = Pending

\* self._kernel = self._decompress_kernel()
DecompressKernel ==
    /\ result.t = "pending"
    /\ call.fn = "_decompress_kernel"
    /\ result' = decompress_kernel(call.body)
    /\ UNCHANGED <<coreVars, lateVars, facVars, memoVars, extVars, call>>

NextKernel == DecompressKernel

\* one call of _decompress_kernel on a kernel section
SpecKernel == InitKernel /\ [][NextKernel]_vars

----------------------------------------------------------------------------
(* The lazily computed fields of ReolinkFirmware: uboot_section, uboot,    *)
(* kernel_section, kernel and fdt. A property of the model takes the       *)
(* fields and the run counters s = [memo, runs] and gives them back with   *)
(* the value returned (v) or the fact that the access raised (err). The    *)
(* value a computation gives is tagged with the number of the run that     *)
(* gave it.                                                                *)

\* largest number of runs of one computation
MaxRuns == 2

Returned(s, v) == [memo |-> s.memo, runs |-> s.runs, v |-> v, err |-> FALSE]

\* the computation of item x has run once more and raised
Failed(s, x) ==
    [memo |-> s.memo, runs |-> [s.runs EXCEPT ![x] = @ + 1], v |-> NoneV, err |-> TRUE]

\* the computation of item x has run once more and its value t is stored
Stored(s, x, t) ==
    LET n == s.runs[x] + 1
    IN  [memo |-> [s.memo EXCEPT ![x] = Value(t, n)],
         runs |-> [s.runs EXCEPT ![x] = n], v |-> Value(t, n), err |-> FALSE]

\* property uboot_section
uboot_section(s) ==
    IF s.memo["uboot_section"].t # "None" THEN Returned(s, s.memo["uboot_section"])
    ELSE Stored(s, "uboot_section", "bytes")

\* property uboot: self._uboot = self._decompress_uboot()
uboot(s, im) ==
    IF s.memo["uboot"].t # "None" THEN Returned(s, s.memo["uboot"])
    ELSE LET a == uboot_section(s)
         IN  IF im.uboot_fails THEN Failed(a, "uboot") ELSE Stored(a, "uboot", "bytes")

\* property kernel_section
kernel_section(s) ==
    IF s.memo["kernel_section"].t # "None" THEN Returned(s, s.memo["kernel_section"])
    ELSE Stored(s, "kernel_section", "bytes")

\* property kernel: self._kernel = self._decompress_kernel()
kernel(s, im) ==
    IF s.memo["kernel"].t # "None" THEN Returned(s, s.memo["kernel"])
    ELSE LET a == kernel_section(s)
         IN  IF im.kernel_fails THEN Failed(a, "kernel") ELSE Stored(a, "kernel", "bytes")

\* _get_fdt: the fdt section when the PAK has one, else the kernel section,
\* else the decompressed kernel; FdtBlobParse on the header found, or None
get_fdt(s, im) ==
    LET ks == kernel_section(s)
        k == kernel(ks, im)
        searched == IF im.fdt_at \in {"fdt", "fdt_without_header"} THEN s
                    ELSE IF im.fdt_at = "kernel_section" THEN ks
                    ELSE k
    IN  IF im.fdt_at \in {"kernel", "nowhere"} /\ k.err THEN Failed(k, "fdt")
        ELSE IF im.fdt_at \in {"fdt", "kernel_section", "kernel"}
        THEN (IF im.fdt_fails THEN Failed(searched, "fdt")
              ELSE Stored(searched, "fdt", "Fdt"))
        ELSE Stored(searched, "fdt", "None")

\* property fdt that tells a computed field by `is not None`
fdt_is_not_None(s, im) ==
    IF s.memo["fdt"].t \notin {"DUMMY", "None"} THEN Returned(s, s.memo["fdt"])
    ELSE get_fdt(s, im)

\* property fdt: if self._fdt is not DUMMY: return self._fdt
fdt(s, im) ==
    IF s.memo["fdt"].t # "DUMMY" THEN Returned(s, s.memo["fdt"])
    ELSE get_fdt(s, im)

\* property fdt_json: if self.fdt is not None: return literal_eval(self.fdt.to_json())
fdt_json(s, im) ==
    LET a == fdt(s, im)
    IN  IF a.err \/ a.v.t = "None" THEN a ELSE fdt(a, im)

\* property board: if self.fdt_json is not None: return self.fdt_json["model"][1]
board(s, im) ==
    LET a == fdt_json(s, im)
    IN  IF a.err \/ a.v.t = "None" THEN a ELSE fdt_json(a, im)

\* get_uboot_info: RE_UBOOT.search(self.uboot), RE_COMPLINK.search(self.uboot)
get_uboot_info(s, im) ==
    LET a == uboot(s, im)
    IN  IF a.err THEN a ELSE uboot(a, im)

\* get_linux_banner: RE_BANNER.search(self.kernel)
get_linux_banner(s, im) == kernel(s, im)

\* get_vendor: the compatible string of fdt_json, else the U-Boot section
get_vendor(s, im) ==
    LET a == board(s, im)
    IN  IF a.err \/ a.v.t # "None" THEN a ELSE uboot_section(a)

\* extract: self.uboot, self.kernel, get_kernel_config(), self.fdt twice
extract(s, im) ==
    LET a == uboot(s, im)
        b == kernel(a, im)
        c == kernel(b, im)
        d == fdt(c, im)
    IN  IF a.err THEN a
        ELSE IF b.err THEN b
        ELSE IF d.err \/ d.v.t = "None" THEN d
        ELSE fdt(d, im)

InitMemo ==
    /\ CoreIdle
    /\ LateIdle
    /\ FacIdle
    /\ CallIdle
    /\ ExtIdle
    /\ img \in [uboot_fails : BOOLEAN, kernel_fails : BOOLEAN, fdt_fails : BOOLEAN,
                fdt_at : {"fdt", "fdt_without_header", "kernel_section", "kernel",
                          "nowhere"}]
    /\ memo = NewMemo
    /\ runs = NoRuns
    /\ last = NoLast

\* the accessor op has returned or raised r
Accessed(op, r) ==
    /\ \A x \in Items : r.runs[x] <= MaxRuns
    /\ memo' = r.memo
    /\ runs' = r.runs
    /\ last' = [op |-> op, v |-> r.v, err |-> r.err]
    /\ UNCHANGED <<coreVars, lateVars, facVars, callVars, extVars, img>>

Now == [memo |-> memo, runs |-> runs]

UbootSection == Accessed("uboot_section", uboot_section(Now))
Uboot == Accessed("uboot", uboot(Now, img))
KernelSection == Accessed("kernel_section", kernel_section(Now))
Kernel == Accessed("kernel", kernel(Now, img))
FdtProperty == Accessed("fdt", fdt(Now, img))
Board == Accessed("board", board(Now, img))
GetUbootInfo == Accessed("get_uboot_info", get_uboot_info(Now, img))
GetLinuxBanner == Accessed("get_linux_banner", get_linux_banner(Now, img))
GetVendor == Accessed("get_vendor", get_vendor(Now, img))
ExtractFiles == Accessed("extract", extract(Now, img))

NextMemo ==
    \/ UbootSection
    \/ Uboot
    \/ KernelSection
    \/ Kernel
    \/ FdtProperty
    \/ Board
    \/ GetUbootInfo
    \/ GetLinuxBanner
    \/ GetVendor
    \/ ExtractFiles

\* any sequence of accessor calls on one firmware object
SpecMemo == InitMemo /\ [][NextMemo]_vars

----------------------------------------------------------------------------
(* ReolinkFirmware.extract(dest, force): the file-system sections go to    *)
(* directories under dest, then uboot, kernel, .config and camera.dts are  *)
(* written. A file-system section of the model is its name and the kind of *)
(* file system it holds; what dest holds at a path is "absent", "old"      *)
(* (there before the call), "new" (written by the call) or "empty"         *)
(* (opened for writing by the call and left without content).              *)

\* most file-system sections in a firmware given to extract
MaxFs == 2

\* the kinds of file system a section can hold: the three extract handles,
\* UBI with each thing its volume can hold, and anything else
FsKinds == {"SQUASHFS", "CRAMFS", "UBI:UBIFS", "UBI:SQUASHFS", "UBI:other", "other"}

\* rootfsdir = [s.name for s in self if s.name in ROOTFS_SECTIONS][0];
\* "" stands for the IndexError of an empty list
rootfsdir_of(secs) ==
    LET hit == Select(secs, ROOTFS_SECTIONS, FALSE, 1)
    IN  IF hit = << >> THEN "" ELSE secs[hit[1]].name

\* mkdir(exist_ok=True), which accepts a directory that exists
mkdir_exist_ok(dest, force) == FALSE

\* dest.mkdir(parents=True, exist_ok=force): whether it raises FileExistsError
mkdir_refused(dest, force) == dest = "dir" /\ ~force

\* outpath = dest / rootfsdir / "mnt" / "app" for app, else dest / rootfsdir
outpath(section, root) ==
    IF section.name = "app" THEN <<root, "mnt", "app">> ELSE <<root>>

\* open(path, "wb" if force else "xb"): whether it raises FileExistsError
open_refused(d, path, force) == ~force /\ d[path] # "absent"

InitExtract ==
    /\ CoreIdle
    /\ LateIdle
    /\ FacIdle
    /\ CallIdle
    /\ MemoIdle
    /\ \E n \in 0..MaxFs : \E secs \in [1..n -> [name : FS_SECTIONS, kind : FsKinds]] :
       \E kcfg, hasfdt, force \in BOOLEAN, decode \in {"ok", "uboot", "kernel"},
          dest \in {"absent", "dir"},
          old \in {{}, Paths} \cup {{p} : p \in Paths} :
          /\ dest = "absent" => old = {}
          /\ xin = [fs |-> secs, kcfg |-> kcfg, fdt |-> hasfdt, decode |-> decode,
                    force |-> force, dest |-> dest, old |-> old]
          /\ disk = [p \in Paths |-> IF p \in old THEN "old" ELSE "absent"]
    /\ xpc = "idle"
    /\ xi = 0
    /\ rootfsdir = ""
    /\ out = << >>
    /\ xerr = ""

\* dest.mkdir(parents=True, exist_ok=force)
Mkdir ==
    /\ xpc = "idle"
    /\ IF mkdir_refused(xin.dest, xin.force)
       THEN xpc' = "FAIL" /\ xerr' = "FileExistsError"
       ELSE xpc' = "rootfsdir" /\ xerr' = xerr
    /\ UNCHANGED <<coreVars, lateVars, facVars, callVars, memoVars, xin, disk, xi, rootfsdir, out>>

\* rootfsdir = [...][0]
Rootfsdir ==
    /\ xpc = "rootfsdir"
    /\ rootfsdir' = rootfsdir_of(xin.fs)
    /\ IF rootfsdir' = ""
       THEN xpc' = "FAIL" /\ xerr' = "IndexError" /\ xi' = xi
       ELSE xpc' = "fs" /\ xerr' = xerr /\ xi' = 1
    /\ UNCHANGED <<coreVars, lateVars, facVars, callVars, memoVars, xin, disk, out>>

\* one turn of `for section in self._fs_sections`:
\* self.extract_file_system(section, outpath); extract_ubifs does not write
\* again a file that exists, or does (ubireader is not part of the package)
ExtractFileSystem ==
    /\ xpc = "fs"
    /\ IF xi > Len(xin.fs)
       THEN xpc' = "uboot" /\ UNCHANGED <<disk, xi, out, xerr>>
       ELSE LET section == xin.fs[xi]
                dir == outpath(section, rootfsdir)
                file == Append(dir, "*")
            IN  IF section.kind \in {"UBI:other", "other"}
                THEN /\ xpc' = "FAIL"
                     /\ xerr' = IF section.kind = "other" THEN "Unknown file system"
                                ELSE "Unknown file system in UBI"
                     /\ UNCHANGED <<disk, xi, out>>
                ELSE /\ \/ disk' = [disk EXCEPT ![file] = "new"]
                        \/ /\ section.kind = "UBI:UBIFS"
                           /\ disk[file] # "absent"
                           /\ disk' = disk
                     /\ out' = Append(out, dir)
                     /\ xi' = xi + 1
                     /\ UNCHANGED <<xpc, xerr>>
    /\ UNCHANGED <<coreVars, lateVars, facVars, callVars, memoVars, xin, rootfsdir>>

\* with open(dest / "uboot", mode) as f: f.write(self.uboot)
WriteUboot ==
    /\ xpc = "uboot"
    /\ IF open_refused(disk, <<"uboot">>, xin.force)
       THEN xpc' = "FAIL" /\ xerr' = "FileExistsError" /\ disk' = disk
       ELSE IF xin.decode = "uboot"
       THEN /\ xpc' = "FAIL" /\ xerr' = "_decompress_uboot"
            /\ disk' = [disk EXCEPT ![<<"uboot">>] = "empty"]
       ELSE /\ xpc' = "kernel" /\ xerr' = xerr
            /\ disk' = [disk EXCEPT ![<<"uboot">>] = "new"]
    /\ UNCHANGED <<coreVars, lateVars, facVars, callVars, memoVars, xin, xi, rootfsdir, out>>

\* with open(dest / "kernel", mode) as f: f.write(self.kernel)
WriteKernel ==
    /\ xpc = "kernel"
    /\ IF open_refused(disk, <<"kernel">>, xin.force)
       THEN xpc' = "FAIL" /\ xerr' = "FileExistsError" /\ disk' = disk
       ELSE IF xin.decode = "kernel"
       THEN /\ xpc' = "FAIL" /\ xerr' = "_decompress_kernel"
            /\ disk' = [disk EXCEPT ![<<"kernel">>] = "empty"]
       ELSE /\ xpc' = "config" /\ xerr' = xerr
            /\ disk' = [disk EXCEPT ![<<"kernel">>] = "new"]
    /\ UNCHANGED <<coreVars, lateVars, facVars, callVars, memoVars, xin, xi, rootfsdir, out>>

\* if (kcfg := self.get_kernel_config()) is not None: write dest / ".config"
WriteConfig ==
    /\ xpc = "config"
    /\ IF ~xin.kcfg THEN xpc' = "dts" /\ UNCHANGED <<disk, xerr>>
       ELSE IF open_refused(disk, <<".config">>, xin.force)
       THEN xpc' = "FAIL" /\ xerr' = "FileExistsError" /\ disk' = disk
       ELSE /\ xpc' = "dts" /\ xerr' = xerr
            /\ disk' = [disk EXCEPT ![<<".config">>] = "new"]
    /\ UNCHANGED <<coreVars, lateVars, facVars, callVars, memoVars, xin, xi, rootfsdir, out>>

\* if self.fdt is not None: write dest / "camera.dts"
WriteDts ==
    /\ xpc = "dts"
    /\ IF ~xin.fdt THEN xpc' = "done" /\ UNCHANGED <<disk, xerr>>
       ELSE IF open_refused(disk, <<"camera.dts">>, xin.force)
       THEN xpc' = "FAIL" /\ xerr' = "FileExistsError" /\ disk' = disk
       ELSE /\ xpc' = "done" /\ xerr' = xerr
            /\ disk' = [disk EXCEPT ![<<"camera.dts">>] = "new"]
    /\ UNCHANGED <<coreVars, lateVars, facVars, callVars, memoVars, xin, xi, rootfsdir, out>>

NextExtract ==
    \/ Mkdir
    \/ Rootfsdir
    \/ ExtractFileSystem
    \/ WriteUboot
    \/ WriteKernel
    \/ WriteConfig
    \/ WriteDts

\* one call of extract on a destination that may hold files already
SpecExtract == InitExtract /\ [][NextExtract]_vars

----------------------------------------------------------------------------
(* Finding the flattened device tree: ReolinkFirmware._get_fdt             *)

\* most tokens in a blob searched for an FDT header
MaxBlob == 2

\* what the `model` property of a device tree can be: missing, empty, a name
FdtModels == {"missing", "", "RLC"}

\* a blob is a sequence of tokens: bytes that are no FDT header, or a whole
\* device tree starting with a header RE_FDT_HEADER matches
FdtTokens == {[t |-> "bytes", model |-> "missing"]}
                 \cup {[t |-> "fdt", model |-> m] : m \in FdtModels}

\* RE_FDT_HEADER.search(data): the index of the first header, 0 for no match
RECURSIVE RE_FDT_HEADER_search(_, _)
RE_FDT_HEADER_search(data, i) ==
    IF i > Len(data) THEN 0
    ELSE IF data[i].t = "fdt" THEN i
    ELSE RE_FDT_HEADER_search(data, i + 1)

\* what _get_fdt gives: the tree parsed at a match, None, or the exception
\* of self.kernel
FdtAt(src, data, i) == [t |-> "fdt", src |-> src, at |-> i, model |-> data[i].model]
FdtNone == [t |-> "None", src |-> "", at |-> 0, model |-> "missing"]
FdtRaised == [t |-> "raise", src |-> "kernel", at |-> 0, model |-> "missing"]

\* _get_fdt
get_fdt_search(c) ==
    IF c.hasfdt
    THEN LET match == RE_FDT_HEADER_search(c.fdt, 1)
         IN  IF match # 0 THEN FdtAt("fdt", c.fdt, match) ELSE FdtNone
    ELSE LET m1 == RE_FDT_HEADER_search(c.kernel_section, 1)
         IN  IF m1 # 0 THEN FdtAt("kernel_section", c.kernel_section, m1)
             ELSE IF c.kfail THEN FdtRaised
             ELSE LET m2 == RE_FDT_HEADER_search(c.kernel, 1)
                  IN  IF m2 # 0 THEN FdtAt("kernel", c.kernel, m2) ELSE FdtNone

Blobs(n) == UNION {[1..k -> FdtTokens] : k \in 0..n}

InitFdt ==
    /\ CoreIdle
    /\ LateIdle
    /\ FacIdle
    /\ MemoIdle
    /\ ExtIdle
    /\ \/ \E data \in Blobs(MaxBlob) :
             call = [fn |-> "_get_fdt", hasfdt |-> TRUE, fdt |-> data,
                     kernel_section |-> << >>, kernel |-> << >>, kfail |-> FALSE]
       \/ \E ks \in Blobs(MaxBlob), k \in Blobs(MaxBlob), kfail \in BOOLEAN :
             /\ kfail => k = << >>
             /\ call = [fn |-> "_get_fdt", hasfdt |-> FALSE, fdt |-> << >>,
                        kernel_section |-> ks, kernel |-> k, kfail |-> kfail]
    /\ result = Pending

\* self._fdt = self._get_fdt()
GetFdt ==
    /\ result.t = "pending"
    /\ call.fn = "_get_fdt"
    /\ result' = get_fdt_search(call)
    /\ UNCHANGED <<coreVars, lateVars, facVars, memoVars, extVars, call>>

NextFdt == GetFdt

\* one call of _get_fdt on a firmware
SpecFdt == InitFdt /\ [][NextFdt]_vars

----------------------------------------------------------------------------
(* The kernel image header: uboot.LegacyImageHeader, get_arch_name and     *)
(* ReolinkFirmware.get_kernel_image_header_info                            *)

\* the largest value of a c_uint8 field (_os, _arch)
UINT8_MAX == 255

\* class Arch(IntEnum)
Arch_ARM == 2
Arch_MIPS == 5
Arch_ARM64 == 22

\* the value of hdr.os that stands for Linux
OS_LINUX == 5

ArchOk(a) == [t |-> "ok", v |-> a]
ArchValueError == [t |-> "raise", v |-> 0]

\* LegacyImageHeader.arch: Arch(self._arch); an IntEnum raises ValueError
\* for a value that is not one of its members
LegacyImageHeader_arch(byte) ==
    IF byte \in {Arch_ARM, Arch_MIPS, Arch_ARM64} THEN ArchOk(byte)
    ELSE ArchValueError

\* get_arch_name(arch)
get_arch_name(arch) ==
    IF arch = Arch_ARM THEN "ARM"
    ELSE IF arch = Arch_MIPS THEN "MIPS"
    ELSE IF arch = Arch_ARM64 THEN "AArch64"
    ELSE "Unknown architecture"

HeaderInfo(os, arch) == [t |-> "ok", os |-> os, arch |-> arch]
HeaderNone == [t |-> "None", os |-> "", arch |-> ""]
HeaderRaised(what) == [t |-> "raise", os |-> "", arch |-> what]

\* get_kernel_image_header_info
get_kernel_image_header_info(c) ==
    IF ~c.uimage THEN HeaderNone
    ELSE LET os == IF c.os = OS_LINUX THEN "Linux" ELSE "Unknown"
             arch == LegacyImageHeader_arch(c.arch)
         IN  IF arch.t = "raise" THEN HeaderRaised("ValueError")
             ELSE IF get_arch_name(arch.v) = "Unknown architecture"
             THEN HeaderRaised("Unknown architecture")
             ELSE HeaderInfo(os, get_arch_name(arch.v))

InitHeader ==
    /\ CoreIdle
    /\ LateIdle
    /\ FacIdle
    /\ MemoIdle
    /\ ExtIdle
    /\ \E uimage \in BOOLEAN, os \in {OS_LINUX, 0}, arch \in 0..UINT8_MAX :
          call = [fn |-> "get_kernel_image_header_info", uimage |-> uimage,
                  os |-> os, arch |-> arch]
    /\ result = Pending

\* os, architecture, kernel_image_name = self.get_kernel_image_header_info()
GetKernelImageHeaderInfo ==
    /\ result.t = "pending"
    /\ call.fn = "get_kernel_image_header_info"
    /\ result' = get_kernel_image_header_info(call)
    /\ UNCHANGED <<coreVars, lateVars, facVars, memoVars, extVars, call>>

NextHeader == GetKernelImageHeaderInfo

\* one call of get_kernel_image_header_info on a kernel section
SpecHeader == InitHeader /\ [][NextHeader]_vars

----------------------------------------------------------------------------
(* LZ4 legacy frames: util.lz4_legacy_decompress                           *)
(* What follows the magic is a sequence of units: a unit read as a size    *)
(* field is a u32, a block of size n is the next n units, and a block      *)
(* decompresses to as many bytes as its units add up to.                   *)

\* most units after the magic, and the largest unit
MaxStream == 4
MaxUnit == 2

RECURSIVE SumSeq(_)
SumSeq(s) == IF s = << >> THEN 0 ELSE Head(s) + SumSeq(Tail(s))

RECURSIVE len_res(_)
\* len(res)
len_res(blocks) ==
    IF blocks = << >> THEN 0 ELSE SumSeq(Head(blocks)) + len_res(Tail(blocks))

\* f.read(n) at position p of the stream: the units read
f_read(stream, p, n) == SubSeq(stream, p + 1, Min(p + n, Len(stream)))

\* lz4_block_decompress that takes an empty block for an empty result
lz4_block_decompress_accepts_empty(block) == FALSE

\* lz4_block_decompress(block, uncompressed_size=8*ONEMIB): whether it is
\* bound to raise; LZ4 has no empty block
lz4_block_decompress_fails(block) == block = << >>

InitLz ==
    /\ CoreIdle
    /\ FacIdle
    /\ MemoIdle
    /\ ExtIdle
    /\ \E magic \in BOOLEAN, n \in 0..MaxStream : \E stream \in [1..n -> 0..MaxUnit] :
          call = [fn |-> "lz4_legacy_decompress", magic |-> magic, stream |-> stream]
    /\ result = Pending
    /\ LzIdle
    /\ CloIdle
    /\ UrlIdle
    /\ TmpIdle

\* if f.read(4) != FileType.LZ4_LEGACY_FRAME.value: raise
LzMagic ==
    /\ call.fn = "lz4_legacy_decompress"
    /\ lzpc = "idle"
    /\ lzpc' = IF call.magic THEN "while" ELSE "raised"
    /\ UNCHANGED <<coreVars, facVars, memoVars, extVars, callVars, cloVars, urlVars, tmpVars, res, fpos>>

\* one evaluation of the while condition and, if it holds, of the body:
\* size := int.from_bytes(f.read(4), "little"); a block may be corrupt
LzWhile ==
    /\ lzpc = "while"
    /\ LET field == f_read(call.stream, fpos, 1)
           size == IF field = << >> THEN 0 ELSE field[1]
           p == fpos + Len(field)
           block == f_read(call.stream, p, size)
       IN  IF size = len_res(res)
           THEN /\ lzpc' = "returned"
                /\ fpos' = p
                /\ res' = res
           ELSE /\ fpos' = p + Len(block)
                /\ \/ /\ ~lz4_block_decompress_fails(block)
                      /\ res' = Append(res, block)
                      /\ lzpc' = lzpc
                   \/ /\ lz4_block_decompress_fails(block) \/ block # << >>
                      /\ res' = res
                      /\ lzpc' = "raised"
    /\ UNCHANGED <<coreVars, facVars, memoVars, extVars, callVars, cloVars, urlVars, tmpVars>>

NextLz ==
    \/ LzMagic
    \/ LzWhile

\* one call of lz4_legacy_decompress, which runs on once called
SpecLz == InitLz /\ [][NextLz]_vars /\ WF_vars(NextLz)

----------------------------------------------------------------------------
(* Path lookup in a UBIFS image: ubifs.Directory.select, UBIFS.select      *)
(* A file is named by its path from the root, a sequence of names.         *)

\* most components in a path given to select
MaxPath == 3

\* the image: / holds the directory a and the file f; a holds the file b
\* and the empty directory c
ImageFiles == {<< >>, <<"a">>, <<"a", "b">>, <<"a", "c">>, <<"f">>}
ImageDirs == {<< >>, <<"a">>, <<"a", "c">>}

\* the components a path is written with; x is the name of no file
Components == {".", "..", "a", "b", "c", "f", "x"}

\* File.parent, None for the root
parent(f) == SubSeq(f, 1, Len(f) - 1)

SelectedFile(f) == [t |-> "File", v |-> f]
SelectedNone == [t |-> "None", v |-> << >>]

\* PurePosixPath(path).parts without the root: pathlib drops the `.`
\* components and keeps the `..` ones
RECURSIVE PurePosixPath_parts(_)
PurePosixPath_parts(raw) ==
    IF raw = << >> THEN << >>
    ELSE IF Head(raw) = "." THEN PurePosixPath_parts(Tail(raw))
    ELSE <<Head(raw)>> \o PurePosixPath_parts(Tail(raw))

\* Directory.select(path), self being the directory d, path being absolute
\* or not and having the given parts
RECURSIVE Directory_select(_, _, _)
Directory_select(d, absolute, parts) ==
    IF ~absolute /\ parts = <<"..">>
    THEN SelectedFile(IF d # << >> THEN parent(d) ELSE d)
    ELSE IF absolute /\ d # << >>
    THEN Directory_select(<< >>, absolute, parts)
    ELSE IF parts = << >>
    THEN SelectedFile(d)
    ELSE LET child == Head(parts)
             descendants == Tail(parts)
             file == Append(d, child)
         IN  IF file \in ImageFiles
             THEN IF file \in ImageDirs /\ descendants # << >>
                  THEN Directory_select(file, FALSE, descendants)
                  ELSE IF descendants = << >> THEN SelectedFile(file)
                  ELSE SelectedNone
             ELSE SelectedNone

InitSelect ==
    /\ CoreIdle
    /\ FacIdle
    /\ MemoIdle
    /\ ExtIdle
    /\ LateIdle
    /\ \E d \in ImageDirs, absolute \in BOOLEAN, n \in 0..MaxPath :
       \E raw \in [1..n -> Components] :
          call = [fn |-> "select", d |-> d, absolute |-> absolute, raw |-> raw]
    /\ result = Pending

\* d.select(path)
DirectorySelect ==
    /\ result.t = "pending"
    /\ call.fn = "select"
    /\ result' = Directory_select(call.d, call.absolute, PurePosixPath_parts(call.raw))
    /\ UNCHANGED <<coreVars, lateVars, facVars, memoVars, extVars, call>>

NextSelect == DirectorySelect

\* one call of select on a directory of the image
SpecSelect == InitSelect /\ [][NextSelect]_vars

----------------------------------------------------------------------------
(* Reading a section out of the PAK bytes: mypakler.extract_section        *)

\* longest PAK, longest section and largest pakler.CHUNK_SIZE
MaxPak == 4
MaxSecLen == 5
MaxChunk == 3

\* io.BytesIO(pakbytes).read(n) at position p of n_bytes bytes, the byte at
\* offset i being i
BytesIO_read(n_bytes, p, n) == Bytes(Min(p, n_bytes), Min(p + n, n_bytes))

ExtractOk(data) == [t |-> "ok", v |-> data]
ExtractReadError == [t |-> "raise", v |-> << >>]

\* the while loop of extract_section: res, length and chunk_size after
\* f.seek(section.start) left f at p
RECURSIVE extract_section_loop(_, _, _, _, _)
extract_section_loop(n_bytes, p, data, length, chunk_size) ==
    IF length > 0
    THEN LET size == IF length < chunk_size THEN length ELSE chunk_size
             chunk == BytesIO_read(n_bytes, p, size)
         IN  IF chunk = << >> THEN ExtractReadError
             ELSE extract_section_loop(n_bytes, p + Len(chunk), data \o chunk,
                                       length - size, size)
    ELSE ExtractOk(data)

\* extract_section(pakbytes, section)
extract_section(n_bytes, section, chunk_size) ==
    extract_section_loop(n_bytes, section.start, << >>, section.len, chunk_size)

InitExtractSection ==
    /\ CoreIdle
    /\ FacIdle
    /\ MemoIdle
    /\ ExtIdle
    /\ LateIdle
    /\ \E n_bytes \in 0..MaxPak, start \in 0..(MaxPak + 1), len \in 0..MaxSecLen,
          chunk_size \in 1..MaxChunk :
          call = [fn |-> "extract_section", n_bytes |-> n_bytes,
                  section |-> [start |-> start, len |-> len],
                  chunk_size |-> chunk_size]
    /\ result = Pending

\* mypakler.extract_section(pakbytes, section)
ExtractSection ==
    /\ result.t = "pending"
    /\ call.fn = "extract_section"
    /\ result' = extract_section(call.n_bytes, call.section, call.chunk_size)
    /\ UNCHANGED <<coreVars, lateVars, facVars, memoVars, extVars, call>>

NextExtractSection == ExtractSection

\* one call of extract_section on the bytes of a PAK
SpecExtractSection == InitExtractSection /\ [][NextExtractSection]_vars

----------------------------------------------------------------------------
(* The download cache: util.get_cache_file, has_cache, make_cache_file,    *)
(* direct_download_url and the URL branch of firmwares_from_file.          *)
(* A file of the cache directory is named <<"sha", url>> for the SHA-256   *)
(* of a URL or <<"name", n>> for the name n; SHA-256 is taken as           *)
(* collision-free.                                                         *)

\* most calls of firmwares_from_file, damaged files included
MaxCalls == 3

\* the URLs asked for: two plain ones, two that carry the same `name` query
\* parameter, and one of a hosting site that is rewritten before the fetch
Urls == {"http://a/fw.pak", "http://a/dl?name=fw.pak", "http://b/dl?name=fw.pak",
         "https://drive.google.com/file/d/ID/view"}

\* direct_download_url(url)
direct_download_url(url) ==
    IF url = "https://drive.google.com/file/d/ID/view"
    THEN "https://drive.google.com/uc?id=ID&confirm=t"
    ELSE url

\* dict(parse_qsl(urlparse(url).query)).get("name"), "" for None
pakname_of(url) ==
    IF url \in {"http://a/dl?name=fw.pak", "http://b/dl?name=fw.pak"} THEN "fw.pak"
    ELSE ""

\* the names of the files the cache directory can hold
CacheFiles ==
    {<<"sha", u>> : u \in Urls \cup {direct_download_url(u) : u \in Urls}}
        \cup {<<"name", "fw.pak">>}

\* what a file holds: nothing (absent), the PAK downloaded for the URL `of`,
\* the name `of` as text, or what is left of either after a truncation
Absent == [kind |-> "absent", of |-> ""]
PakOf(url) == [kind |-> "pak", of |-> url]
NameText(name) == [kind |-> "text", of |-> name]
Truncated(c) == IF c.kind = "pak" THEN [kind |-> "bytes", of |-> c.of]
                ELSE [kind |-> "text", of |-> ""]

\* get_cache_file(url) on the cache directory dir
get_cache_file(dir, url) ==
    LET file == <<"sha", url>>
    IN  IF dir[file].kind = "pak" THEN file
        ELSE IF dir[file].kind = "text" THEN <<"name", dir[file].of>>
        ELSE file

\* Path.is_file
is_file(dir, path) == path \in CacheFiles /\ dir[path].kind # "absent"

\* has_cache(url)
has_cache(dir, url) == is_file(dir, get_cache_file(dir, url))

\* what make_cache_file(url, filebytes, name) leaves in the directory when
\* it returns True
cache_written(dir, url, filebytes, name) ==
    IF name = ""
    THEN [dir EXCEPT ![<<"sha", url>>] = filebytes]
    ELSE [dir EXCEPT ![<<"name", name>>] = filebytes,
                     ![<<"sha", url>>] = NameText(name)]

\* firmwares_from_file on a local file: the firmwares, or the exception
FromCache(c) == [t |-> IF c.kind = "pak" THEN "ok" ELSE "raise",
                 from |-> "cache", content |-> c]
FromNet(url) == [t |-> "ok", from |-> "net", content |-> PakOf(url)]
HttpError == [t |-> "raise", from |-> "net", content |-> Absent]
NotServed == [t |-> "none", from |-> "", content |-> Absent]

InitUrl ==
    /\ CoreIdle
    /\ FacIdle
    /\ CallIdle
    /\ MemoIdle
    /\ ExtIdle
    /\ LzIdle
    /\ CloIdle
    /\ TmpIdle
    /\ cachedir = [f \in CacheFiles |-> Absent]
    /\ asked = << >>
    /\ served = NotServed
    /\ fetches = 0
    /\ made = {}

\* firmwares_from_file(url, use_cache) for a URL: served from the cache, or
\* downloaded and, if the cache is in use and can be written, cached
FirmwaresFromUrl ==
    /\ Len(asked) < MaxCalls
    /\ \E url \in Urls, use_cache \in BOOLEAN, status200 \in BOOLEAN, written \in BOOLEAN :
          /\ asked' = Append(asked, [url |-> url, use_cache |-> use_cache])
          /\ IF use_cache /\ has_cache(cachedir, url)
             THEN /\ served' = FromCache(cachedir[get_cache_file(cachedir, url)])
                  /\ status200 /\ written
                  /\ UNCHANGED <<cachedir, fetches, made>>
             ELSE LET direct == direct_download_url(url)
                  IN  /\ fetches' = fetches + 1
                      /\ IF ~status200
                         THEN /\ served' = HttpError
                              /\ written
                              /\ UNCHANGED <<cachedir, made>>
                         ELSE /\ served' = FromNet(url)
                              /\ IF use_cache /\ written
                                 THEN /\ cachedir' = cache_written(cachedir, direct, PakOf(url),
                                                                   pakname_of(direct))
                                      /\ made' = made \cup {url}
                                 ELSE /\ use_cache \/ written
                                      /\ UNCHANGED <<cachedir, made>>
    /\ UNCHANGED <<coreVars, facVars, callVars, memoVars, extVars, lzVars, cloVars, tmpVars>>

\* a file of the cache directory is cut short by something else (a writer
\* that was interrupted, a full disk)
Truncate ==
    /\ Len(asked) < MaxCalls
    /\ \E f \in CacheFiles :
          /\ cachedir[f].kind \in {"pak", "text"}
          /\ cachedir' = [cachedir EXCEPT ![f] = Truncated(cachedir[f])]
    /\ asked' = Append(asked, [url |-> "", use_cache |-> FALSE])
    /\ served' = NotServed
    /\ UNCHANGED <<coreVars, facVars, callVars, memoVars, extVars, lzVars, cloVars, tmpVars, fetches, made>>

NextUrl ==
    \/ FirmwaresFromUrl
    \/ Truncate

\* calls of firmwares_from_file on URLs, one after the other, on a cache
\* directory that starts empty
SpecUrl == InitUrl /\ [][NextUrl]_vars

----------------------------------------------------------------------------
(* Temporary files backing in-memory images: tmpfile.TempFileFromBytes and *)
(* its users get_fs_from_ubi, get_files_from_ubifs, extract_file_system    *)
(* and UBIFS.from_bytes / UBIFS.close                                      *)

\* the users of TempFile; the last is from_bytes followed by close
TempFileUsers == {"get_fs_from_ubi", "get_files_from_ubifs", "extract_file_system",
                  "UBIFS.from_bytes"}

\* what can raise on the way: os.write in TempFile.open, the size guess
\* before ubi_file, the indexing in UBIFS.__init__, the work on the image
TempFailures == {"none", "os.write", "guess_size", "index", "body"}

\* the users that hold the temporary file in a with statement
with_TempFile(fn) == fn # "UBIFS.from_bytes"

\* the users that go through the class UBIFS, whose __init__ indexes the
\* image before any with statement holds it
through_UBIFS(fn) == fn \in {"get_files_from_ubifs", "UBIFS.from_bytes"}

\* LinuxInMemoryFile.open / OnDiskTempFile.open: what it creates
TempFile_open(platform) ==
    IF platform = "memfd" THEN {"fd"} ELSE {"fd", "path"}

\* LinuxInMemoryFile.close / OnDiskTempFile.close: what is left of h
TempFile_close(h) == h \ {"fd", "path"}

\* UBIFS.close, closing_ubifile: what is left of h
fhandle_close(h) == h \ {"fhandle"}

\* what is left of h when an exception leaves the function fn
unwind(fn, h, entered) ==
    LET h1 == IF entered THEN fhandle_close(h) ELSE h
    IN  IF with_TempFile(fn) THEN TempFile_close(h1) ELSE h1

InitTmp ==
    /\ CoreIdle
    /\ FacIdle
    /\ MemoIdle
    /\ ExtIdle
    /\ LzIdle
    /\ CloIdle
    /\ UrlIdle
    /\ \E fn \in TempFileUsers, platform \in {"memfd", "disk"}, fail \in TempFailures :
          /\ fail = "index" => through_UBIFS(fn)
          /\ fail = "guess_size" => with_TempFile(fn)
          /\ call = [fn |-> fn, platform |-> platform, fail |-> fail]
    /\ result = Pending
    /\ held = {}
    /\ tpc = "start"

\* TempFile(bytes).__enter__ / tmpfile.open(): an exception of os.write
\* leaves open() after the file was created, and __exit__ does not run
\* for an __enter__ that raised
TmpOpen ==
    /\ call.fn \in TempFileUsers
    /\ tpc = "start"
    /\ held' = TempFile_open(call.platform)
    /\ tpc' = IF call.fail = "os.write" THEN "raised" ELSE "opened"
    /\ UNCHANGED <<coreVars, facVars, callVars, memoVars, extVars, lzVars, cloVars, urlVars>>

\* guess_peb_size / guess_leb_size, then ubi_file(tmpfile, size), which
\* opens the path of the temporary file
UbiFileOpen ==
    /\ tpc = "opened"
    /\ IF call.fail = "guess_size"
       THEN held' = unwind(call.fn, held, FALSE) /\ tpc' = "raised"
       ELSE held' = held \cup {"fhandle"} /\ tpc' = "ubi_file"
    /\ UNCHANGED <<coreVars, facVars, callVars, memoVars, extVars, lzVars, cloVars, urlVars>>

\* cls(ubifs(ubi_file(...))) for the users that go through UBIFS, then the
\* with statement on the image or on closing_ubifile
EnterImage ==
    /\ tpc = "ubi_file"
    /\ IF call.fail = "index"
       THEN held' = unwind(call.fn, held, FALSE) /\ tpc' = "raised"
       ELSE held' = held /\ tpc' = "image"
    /\ UNCHANGED <<coreVars, facVars, callVars, memoVars, extVars, lzVars, cloVars, urlVars>>

\* the work on the image, then the exits of the with statements; for
\* UBIFS.from_bytes, the work of the caller and then image.close()
LeaveImage ==
    /\ tpc = "image"
    /\ IF call.fn = "UBIFS.from_bytes"
       THEN held' = fhandle_close(held)
       ELSE held' = unwind(call.fn, held, TRUE)
    /\ tpc' = IF call.fail = "body" THEN "raised" ELSE "done"
    /\ UNCHANGED <<coreVars, facVars, callVars, memoVars, extVars, lzVars, cloVars, urlVars>>

NextTmp ==
    \/ TmpOpen
    \/ UbiFileOpen
    \/ EnterImage
    \/ LeaveImage

\* one use of a temporary file, from its creation to the end of its user
SpecTmp == InitTmp /\ [][NextTmp]_vars

----------------------------------------------------------------------------
(* Section windows: cursor bounds, reads inside the window, independence   *)

\* C1 as stated: in every reachable state the cursor reported by tell() of
\* every window satisfies 0 <= cursor <= section length.
C1_CursorWithinLength ==
    \A w \in DOMAIN wsec :
        /\ 0 <= tell(wsec[w], position[w])
        /\ tell(wsec[w], position[w]) <= wsec[w].len

\* C1 amended: tell() is never negative, and read and peek never move the
\* cursor past the section length: a cursor beyond the length is the result
\* of a seek (seek checks the new position against the start only) and is
\* left where it is by every later read or peek.
C1_CursorBounds ==
    /\ [](\A w \in DOMAIN wsec : 0 <= tell(wsec[w], position[w]))
    /\ [][\A w \in DOMAIN wsec :
            tell(wsec[w], position'[w]) > wsec[w].len
                => (ret'.op = "seek" /\ ret'.w = w) \/ position'[w] = position[w]]_vars

\* a read has taken the cursor exactly to the end of a non-empty window, and
\* a later seek before the start was refused
C1_Witness ==
    /\ ret.op = "seek" /\ ret.err
    /\ wsec[ret.w].len > 0
    /\ tell(wsec[ret.w], position[ret.w]) = wsec[ret.w].len
    /\ aloneFd[ret.w] = position[ret.w]

\* C2: read and peek return only bytes of the source located in
\* [start, start+len), at most (len - cursor) of them, and nothing when the
\* cursor is at or past the window end, whatever size is asked for.
C2_ReadsInsideWindow ==
    ret.op \in {"read", "peek"} =>
        LET sec == wsec[ret.w]
            cursor == tell(sec, ret.at)
        IN  /\ \A i \in 1..Len(ret.data) :
                  sec.start <= ret.data[i] /\ ret.data[i] < SectionEnd(sec)
            /\ Len(ret.data) <= Max(sec.len - cursor, 0)
            /\ cursor >= sec.len => ret.data = <<>>

\* a read from inside a window that ends before the source does returned
\* every byte up to the window end and stopped there
C2_Witness ==
    /\ ret.op = "read"
    /\ ret.data # <<>>
    /\ ret.at > wsec[ret.w].start
    /\ SectionEnd(wsec[ret.w]) < SrcLen
    /\ ret.at + Len(ret.data) = SectionEnd(wsec[ret.w])

\* C5: whatever the other window and sha256 did in between, every
\* operation on a window returns what it returns, and leaves the cursor it
\* leaves, when the operations of that window run alone on the source.
C5_IndependentCursor ==
    /\ position = alonePos
    /\ ret.w \in DOMAIN wsec => ret = aloneRet

\* window 2 has read bytes after window 1 and sha256 moved the parent cursor
C5_Witness ==
    /\ DOMAIN wsec = {1, 2}
    /\ ret.op = "read" /\ ret.w = 2 /\ ret.data # <<>>
    /\ aloneFd[1] > 0
    /\ aloneFd[1] # aloneFd[2]
    /\ position[1] > wsec[1].start

----------------------------------------------------------------------------
(* Ownership of the byte source                                            *)

\* C3: the byte source is never closed while the firmware object is open or
\* while a window that was handed the source is open, and never when
\* closefd is false.
C3_ClosedOnlyByLastHolder ==
    fdClosed =>
        /\ closefd
        /\ fwFd = "None"
        /\ \A i \in DOMAIN files : files[i].given => files[i].closed

\* the source was closed by a window that outlived the firmware object
C3_Witness ==
    /\ fdClosed
    /\ Len(files) >= 2
    /\ \A i \in DOMAIN files : files[i].given

\* C4: with closefd set, once the firmware object is closed and every window
\* returned by open() is closed, the byte source is closed.
C4_ReleasedWhenUnheld ==
    (closefd /\ fwFd = "None" /\ \A i \in DOMAIN files : files[i].closed)
        => fdClosed

----------------------------------------------------------------------------
(* Section-count inference                                                 *)

\* the order the claim states: 8..14, then 1..7, then 14..30, bounds included
ClaimedOrder == range(8, 15) \o range(1, 8) \o range(14, 31)

\* C6: guess_section_count returns the first count, in the order 8..14,
\* 1..7, 14..30, whose header parses, and None only when no count from 1 to
\* 30 parses.
C6_GuessOrder ==
    guess # Pending =>
        LET hits == {k \in DOMAIN ClaimedOrder : read_header(pak, ClaimedOrder[k])}
        IN  /\ (guess = None) <=> (\A n \in 1..30 : ~read_header(pak, n))
            /\ hits # {} =>
                 guess = Int_(ClaimedOrder[CHOOSE k \in hits : \A j \in hits : k <= j])

----------------------------------------------------------------------------
(* The firmware facade: section lookup and construction                    *)

\* the first section of the table, in PAK order, named in names with a
\* nonzero length
FirstNonEmpty(names) ==
    LET hits == {i \in DOMAIN sections :
                    sections[i].name \in names /\ sections[i].len # 0}
    IN  IF hits = {} THEN NoSection
        ELSE sections[CHOOSE i \in hits : \A j \in hits : i <= j]

\* C7: fw["uboot"] (resp. fw["kernel"]) is the first section, in PAK order,
\* whose name is in the U-Boot (resp. kernel) set and whose length is nonzero.
C7_LogicalLookup ==
    /\ (got.key = "uboot" /\ got.err = "") => got.sec = FirstNonEmpty(UBOOT_SECTIONS)
    /\ (got.key = "kernel" /\ got.err = "") => got.sec = FirstNonEmpty(KERNEL_SECTIONS)

\* C8: constructing a firmware object fails with a missing-section error
\* exactly when no section of nonzero length is named in the U-Boot set or
\* none is named in the kernel set.
C8_MissingSection ==
    fw.state # "new" =>
        LET noU == \A i \in DOMAIN sections :
                       sections[i].name \in UBOOT_SECTIONS => sections[i].len = 0
            noK == \A i \in DOMAIN sections :
                       sections[i].name \in KERNEL_SECTIONS => sections[i].len = 0
        IN  /\ fw.state = "failed" <=> (noU \/ noK)
            /\ fw.state = "failed" =>
                 fw.error \in {"U-Boot section not found", "Kernel section not found"}
            /\ fw.error = "U-Boot section not found" <=> noU
            /\ fw.error = "Kernel section not found" <=> (~noU /\ noK)

\* construction failed on a table whose only U-Boot section is empty, next
\* to a kernel section that is not
C8_Witness ==
    /\ fw.state = "failed"
    /\ fw.error = "U-Boot section not found"
    /\ \E i \in DOMAIN sections : sections[i].name \in UBOOT_SECTIONS
    /\ \E i \in DOMAIN sections : sections[i].name \in KERNEL_SECTIONS /\ sections[i].len # 0

----------------------------------------------------------------------------
(* get_info: the application file system and its dispatch                  *)

\* C9: the application file system is the app section whenever the table
\* has one, whatever the order of the fs / rootfs / app sections; otherwise
\* it is the fs or rootfs section.
C9_AppSectionWins ==
    (pc \notin {"idle", "START"} /\ app # 0) =>
        IF \E i \in DOMAIN sections : sections[i].name = "app"
        THEN sections[app].name = "app"
        ELSE sections[app].name \in ROOTFS_SECTIONS

InfoSteps == GetInfo \/ ReadMagic \/ Dispatch \/ UbiUnwrap \/ InnerDispatch \/ Reader

\* C10: the dispatch follows the state machine: SquashFS magic leads to
\* the SquashFS reader, CramFS magic to the CramFS reader, UBI magic to the
\* unwrap and a second dispatch on the inner magic (UBIFS reader, SquashFS
\* reader or failure "Unknown file system in UBI"), any other magic to the
\* failure "Unrecognized image type"; no reader runs on a magic that is not
\* its own; a run that has not ended in METADATA_DONE or FAIL can take its
\* next step, and once ended it stays where it is.
C10_Dispatch ==
    /\ [](/\ pc = "CRAMFS_READ" => fs = "CRAMFS"
          /\ pc = "SQUASHFS_READ" =>
                fs = "SQUASHFS" \/ (fs = "UBI" /\ inner = "SQUASHFS")
          /\ pc = "UBIFS_READ" => fs = "UBI" /\ inner = "UBIFS"
          /\ pc \in {"UBI_UNWRAP", "INNER_MAGIC"} => fs = "UBI"
          /\ (pc = "FAIL" /\ error.msg = "Unknown file system in UBI") =>
                fs = "UBI" /\ inner \notin {"UBIFS", "SQUASHFS"}
          /\ (pc = "FAIL" /\ error.msg = "Unrecognized image type") =>
                fs \notin {"SQUASHFS", "CRAMFS", "UBI"}
          /\ pc = "FAIL" <=> error # NoError
          /\ pc \in {"START", "READ_MAGIC", "UBI_UNWRAP", "INNER_MAGIC",
                     "SQUASHFS_READ", "CRAMFS_READ", "UBIFS_READ"} => ENABLED InfoSteps)
    /\ [][/\ pc = "READ_MAGIC" =>
                pc' = CASE fs = "SQUASHFS" -> "SQUASHFS_READ"
                        [] fs = "CRAMFS" -> "CRAMFS_READ"
                        [] fs = "UBI" -> "UBI_UNWRAP"
                        [] OTHER -> "FAIL"
          /\ (pc = "READ_MAGIC" /\ pc' = "FAIL") =>
                error'.msg = "Unrecognized image type"
          /\ pc = "UBI_UNWRAP" => pc' \in {"INNER_MAGIC", "FAIL"}
          /\ pc = "INNER_MAGIC" =>
                pc' = CASE inner = "UBIFS" -> "UBIFS_READ"
                        [] inner = "SQUASHFS" -> "SQUASHFS_READ"
                        [] OTHER -> "FAIL"
          /\ (pc = "INNER_MAGIC" /\ pc' = "FAIL") =>
                error'.msg = "Unknown file system in UBI"
          /\ pc \in {"SQUASHFS_READ", "CRAMFS_READ", "UBIFS_READ"} =>
                pc' \in {"METADATA_DONE", "FAIL"}
          /\ pc \notin {"METADATA_DONE", "FAIL"}]_vars

\* a UBI application section was unwrapped, a SquashFS found inside, and its
\* files read by the SquashFS reader
C10_Witness ==
    /\ pc = "METADATA_DONE"
    /\ fs = "UBI"
    /\ inner = "SQUASHFS"
    /\ sections[app].name = "app"

----------------------------------------------------------------------------
(* firmware_info and the command line: failures and exit codes             *)

\* the statements of get_info the specification calls required
RequiredStages == {"app", "files", "uboot_info", "info_from_files"}

\* C11: on an archive whose PAKs all open as firmwares, firmware_info never
\* raises; on an archive with PAKs it returns one
\* report per PAK, in order, the report of a PAK whose pipeline fails at a
\* required step has its error populated, and the report of a PAK whose
\* pipeline does not fail has none.
C11_OneReportPerPak ==
    (inp.cmd = "api" /\ \A k \in DOMAIN inp.paks : inp.paks[k].at # "construct") =>
        /\ fpc # "raised"
        /\ (fpc = "returned" /\ inp.paks # << >>) =>
              /\ Len(info) = Len(inp.paks)
              /\ \A k \in DOMAIN info :
                    /\ info[k].pak = k
                    /\ inp.paks[k].at \in RequiredStages => info[k].error # ""
                    /\ inp.paks[k].at \in {"", "extract"} => info[k].error = ""

\* C12: when the only failures of the PAKs of an archive are failures of
\* optional steps (Linux banner with the kernel decompression it needs, FDT
\* discovery), firmware_info does not raise and the report of every PAK is
\* produced without an error.
C12_OptionalFailureSwallowed ==
    (/\ inp.cmd = "api"
     /\ inp.paks # << >>
     /\ \A k \in DOMAIN inp.paks : inp.paks[k].at \in OptionalStages \cup {"", "extract"}
     /\ fpc \in {"returned", "raised"})
        => /\ fpc = "returned"
           /\ Len(info) = Len(inp.paks)
           /\ \A k \in DOMAIN info : info[k].pak = k /\ info[k].error = ""

\* C17: a subcommand exits with code 0 only when nothing failed, and with
\* code 1 and a message on stderr when an exception was raised or, for info
\* in either output mode, when a report carries an error.
C17_ExitCode ==
    exitcode # None =>
        LET failed == exc # "" \/ \E k \in DOMAIN info : info[k].error # ""
        IN  /\ exitcode = Int_(IF failed THEN 1 ELSE 0)
            /\ exitcode = Int_(1) => stderr

----------------------------------------------------------------------------
(* The metadata bundle                                                     *)

\* C13: whatever the kind of the application file system, each metadata
\* file of the bundle holds the content found at the image root when the
\* file exists there, else the content found under /mnt/app when it exists
\* there, else nothing.
C13_RootThenMntApp ==
    result.t = "files" =>
        \A name \in FileNames :
            result.v[name] = IF name \in call.root THEN "root"
                             ELSE IF name \in call.mnt THEN "/mnt/app"
                             ELSE "None"

----------------------------------------------------------------------------
(* The `filesystems` entries of the report                                 *)

\* C14 as stated: the entry of a section that starts with the UBI magic has
\* type ubi.
C14_UbiTypeIsUbi ==
    result.t = "returned" =>
        \A i \in DOMAIN call.fs_sections :
            (call.fs_sections[i].len >= 4 /\ call.fs_sections[i].magic = "UBI_MAGIC")
                => result.v[i].type = "ubi"

\* C14 amended: the entry of a section that starts with the UBI magic has
\* the type of the magic standing at offset 266240 of the section (ubifs,
\* squashfs, ...), and unknown when the section ends before four bytes can be
\* read there or the bytes are no known magic; every other section has the
\* type of the magic at its start.
C14_UbiTypeIsVolumeType ==
    result.t = "returned" =>
        /\ Len(result.v) = Len(call.fs_sections)
        /\ \A i \in DOMAIN call.fs_sections :
              LET sec == call.fs_sections[i]
                  long == sec.len >= UBI_VOLUME_OFFSET + 4
              IN  /\ result.v[i].name = sec.name
                  /\ (sec.len >= 4 /\ sec.magic = "UBI_MAGIC") =>
                        result.v[i].type =
                            CASE long /\ sec.volume = "UBIFS_MAGIC" -> "ubifs"
                              [] long /\ sec.volume = "SQUASHFS_MAGIC" -> "squashfs"
                              [] long /\ sec.volume = "UBI_MAGIC" -> "ubi"
                              [] OTHER -> "unknown"
                  /\ (sec.len >= 4 /\ sec.magic = "SQUASHFS_MAGIC") =>
                        result.v[i].type = "squashfs"
                  /\ (sec.len >= 4 /\ sec.magic = "CRAMFS_MAGIC") =>
                        result.v[i].type = "cramfs"

\* a firmware with two UBI sections, a rootfs and an app, each with a UBIFS
\* volume: both entries say ubifs
C14_Witness ==
    /\ result.t = "returned"
    /\ Len(result.v) = 2
    /\ \A i \in 1..2 : call.fs_sections[i].magic = "UBI_MAGIC"
                       /\ call.fs_sections[i].volume = "UBIFS_MAGIC"
                       /\ result.v[i].type = "ubifs"
    /\ call.fs_sections[1].name = "rootfs" /\ call.fs_sections[2].name = "app"

----------------------------------------------------------------------------
(* The on-disk cache                                                       *)

\* C18: with a usable cache directory and no I/O error, a cache entry is
\* written iff the directory's total size is strictly below 1 GiB and the
\* free disk space is at least 1 GiB; otherwise (a total size of exactly
\* 1 GiB included) nothing is written and make_cache_file returns False.
C18_CacheWrittenIff ==
    (result.t # "pending" /\ call.tempdir # "file" /\ call.oserror = "none") =>
        /\ result.t = "returned"
        /\ result.v <=> (call.dir_size < ONEGIB /\ call.free >= ONEGIB)
        /\ result.written # {} <=> result.v

----------------------------------------------------------------------------
(* Kernel decompression                                                    *)

\* C20: if the LZMA/XZ magic stands immediately after the legacy header the
\* section is decoded from there as one LZMA/XZ stream; otherwise, without
\* the anchor, the call fails with "'System halted' string not found";
\* otherwise the first compression magic at or after the anchor selects the
\* decoder, a magic before the anchor never does, and with no magic at or
\* after the anchor the call fails with "No known compression found".
C20_KernelDecision ==
    result.t # "pending" =>
        LET body == call.body
            halts == {i \in DOMAIN body : body[i] = "halt"}
            anchor == CHOOSE i \in halts : \A j \in halts : i <= j
            magics == {i \in DOMAIN body : body[i] \in {"lz4", "xz", "lzma", "gzip"}}
            after == {i \in magics : i >= anchor}
            first == CHOOSE i \in after : \A j \in after : i <= j
        IN  IF body # << >> /\ body[1] \in {"lzma", "xz", "xz_bare"}
            THEN result = Decoded("lzma.LZMADecompressor", 1)
            ELSE IF halts = {}
            THEN result = Raised("'System halted' string not found")
            ELSE IF after = {}
            THEN result = Raised("No known compression found in kernel")
            ELSE /\ result.t = "returned"
                 /\ result.start = first
                 /\ result.v = CASE body[first] = "lz4" -> "lz4_legacy_decompress"
                                 [] body[first] = "gzip" -> "zlib.decompress"
                                 [] OTHER -> "lzma.LZMADecompressor"

\* a gzip magic stands before the anchor and an LZ4 magic after it: the
\* LZ4 decoder was run from the LZ4 magic
C20_Witness ==
    /\ result.t = "returned"
    /\ result.v = "lz4_legacy_decompress"
    /\ \E i, j \in DOMAIN call.body :
          /\ i < j /\ j < result.start
          /\ call.body[i] = "gzip"
          /\ call.body[j] = "halt"

----------------------------------------------------------------------------
(* Lazily computed fields                                                  *)

\* whether the field of item x holds a computed value
Computed(x) == memo[x].t # (IF x = "fdt" THEN "DUMMY" ELSE "None")

\* C19: each of the five values is computed at most once successfully: a
\* stored value is the one the only successful run gave, no step runs the
\* computation of a stored value again or changes it ('no FDT' included),
\* and the property of a stored value returns it.
C19_ComputedOnce ==
    /\ [](\A x \in Items : Computed(x) => memo[x].n = runs[x])
    /\ [][\A x \in Items : Computed(x) =>
              /\ memo'[x] = memo[x]
              /\ runs'[x] = runs[x]
              /\ (last'.op = x /\ x # "fdt") => (last'.v = memo[x] /\ ~last'.err)
              /\ (last'.op \in {"fdt", "board"} /\ x = "fdt") =>
                    (last'.v = memo[x] /\ ~last'.err)]_vars

\* extract has read uboot, kernel (for the kernel file and again for its
\* .config) and fdt on a firmware that has no FDT: every computation has
\* run once and the stored 'no FDT' was returned
C19_Witness ==
    /\ last.op = "extract"
    /\ ~last.err
    /\ last.v = Value("None", 1)
    /\ memo["fdt"] = Value("None", 1)
    /\ img.fdt_at = "nowhere"
    /\ \A x \in Items : runs[x] = 1

----------------------------------------------------------------------------
(* Extraction                                                              *)

\* the files under dest that extract writes for the firmware xin
Destinations ==
    {<<"uboot">>, <<"kernel">>}
        \cup (IF xin.kcfg THEN {<<".config">>} ELSE {})
        \cup (IF xin.fdt THEN {<<"camera.dts">>} ELSE {})
        \cup {Append(outpath(xin.fs[i], rootfsdir_of(xin.fs)), "*") : i \in DOMAIN xin.fs}

\* those of them that extract_ubifs writes and nothing else does
UbifsOnly ==
    {p \in Destinations :
        \A i \in DOMAIN xin.fs :
            Append(outpath(xin.fs[i], rootfsdir_of(xin.fs)), "*") = p
                => xin.fs[i].kind = "UBI:UBIFS"}
        \ {<<"uboot">>, <<"kernel">>, <<".config">>, <<"camera.dts">>}

\* without force, a destination that holds a file already makes extract fail
\* with FileExistsError and nothing under it is touched
RefusedUntouched ==
    (~xin.force /\ xin.old # {} /\ xpc # "idle") =>
        /\ xpc = "FAIL"
        /\ xerr = "FileExistsError"
        /\ \A p \in Paths : disk[p] = IF p \in xin.old THEN "old" ELSE "absent"

C16_EverySectionWritten ==
    (/\ xpc \in {"done", "FAIL"}
     /\ xin.fs # << >>
     /\ \A i \in DOMAIN xin.fs : xin.fs[i].kind \notin {"other", "UBI:other"}
     /\ xin.decode = "ok"
     /\ xin.dest = "absent" \/ xin.force)
        => /\ xpc = "done"
           /\ Len(out) = Len(xin.fs)
           /\ \E r \in ROOTFS_SECTIONS :
                 \A i \in DOMAIN out :
                     out[i] = IF xin.fs[i].name = "app" THEN <<r, "mnt", "app">>
                              ELSE <<r>>

----------------------------------------------------------------------------
(* Device tree discovery                                                   *)

\* the first header of data at or after i whose model is not empty, 0 for none
RECURSIVE FirstWithModel(_, _)
FirstWithModel(data, i) ==
    IF i > Len(data) THEN 0
    ELSE IF data[i].t = "fdt" /\ data[i].model \notin {"missing", ""} THEN i
    ELSE FirstWithModel(data, i + 1)

\* the blob _get_fdt is to look in: the fdt section if present, else the
\* kernel section if a header stands in it, else the decompressed kernel
ClaimedSource ==
    IF call.hasfdt THEN "fdt"
    ELSE IF RE_FDT_HEADER_search(call.kernel_section, 1) # 0 THEN "kernel_section"
    ELSE "kernel"

ClaimedBlob ==
    IF ClaimedSource = "fdt" THEN call.fdt
    ELSE IF ClaimedSource = "kernel_section" THEN call.kernel_section
    ELSE call.kernel

\* C21: the FDT _get_fdt returns is the first header, in the blob it looks
\* in, whose model property is non-empty; a header with an empty or missing
\* model is skipped in favour of a later one; None when there is none.
C21_FirstWithModelWins ==
    (call.fn = "_get_fdt" /\ result.t \in {"fdt", "None"}) =>
        LET i == FirstWithModel(ClaimedBlob, 1)
        IN  IF i = 0 THEN result.t = "None"
            ELSE /\ result.t = "fdt"
                 /\ result.src = ClaimedSource
                 /\ result.at = i
                 /\ result.model = ClaimedBlob[i].model

----------------------------------------------------------------------------
(* Kernel image header                                                     *)

\* C22: for every arch byte of a kernel image header,
\* get_kernel_image_header_info returns a result and does not fail, and the
\* architecture in it is ARM for 2, MIPS for 5, AArch64 for 22 and unknown
\* for every other value.
C22_ArchMapped ==
    (call.fn = "get_kernel_image_header_info" /\ call.uimage /\ result.t # "pending") =>
        /\ result.t = "ok"
        /\ result.arch = IF call.arch = 2 THEN "ARM"
                         ELSE IF call.arch = 5 THEN "MIPS"
                         ELSE IF call.arch = 22 THEN "AArch64"
                         ELSE "unknown"

----------------------------------------------------------------------------
(* LZ4 legacy decoding                                                     *)

\* the blocks of the records from unit p on, up to the first size field
\* equal to the number of bytes decompressed so far (the end of the input
\* reads as a size field of 0)
RECURSIVE ClaimedBlocks(_, _, _)
ClaimedBlocks(stream, p, acc) ==
    LET size == IF p < Len(stream) THEN stream[p + 1] ELSE 0
        q == Min(p + 1, Len(stream))
        block == f_read(stream, q, size)
    IN  IF size = len_res(acc) \/ block = << >> THEN [blocks |-> acc, stop |-> q]
        ELSE ClaimedBlocks(stream, q + Len(block), Append(acc, block))

LzFinished == lzpc \in {"returned", "raised"}

\* C23: decoding fails when the input does not start with the magic;
\* otherwise a decoding that returns has consumed the records in order, has
\* stopped exactly at the first size field equal to the number of bytes
\* decompressed so far and returns the blocks decoded before that field; and
\* every decoding of a finite input ends.
C23_StopsAtFirstMatchingSize ==
    /\ [](LzFinished /\ ~call.magic => lzpc = "raised")
    /\ [](lzpc = "returned" =>
             /\ res = ClaimedBlocks(call.stream, 0, << >>).blocks
             /\ fpos = ClaimedBlocks(call.stream, 0, << >>).stop)
    /\ (call.fn = "lz4_legacy_decompress" => <>LzFinished)

\* a decoding has returned one block and stopped at a size field before the
\* end of the input
C23_Witness ==
    /\ lzpc = "returned"
    /\ Len(res) >= 1
    /\ fpos < Len(call.stream)

----------------------------------------------------------------------------
(* UBIFS path lookup                                                       *)

\* resolution of the components of raw one by one from the file cur;
\* "none" once a component does not exist
RECURSIVE Resolve(_, _)
Resolve(cur, raw) ==
    IF raw = << >> THEN SelectedFile(cur)
    ELSE IF Head(raw) = "." THEN Resolve(cur, Tail(raw))
    ELSE IF Head(raw) = ".."
    THEN Resolve(IF cur = << >> THEN cur ELSE parent(cur), Tail(raw))
    ELSE IF cur \in ImageDirs /\ Append(cur, Head(raw)) \in ImageFiles
    THEN Resolve(Append(cur, Head(raw)), Tail(raw))
    ELSE SelectedNone

\* C26: d.select(p) returns the file that resolving p component by
\* component from d (from the root when p is absolute) yields, `..` in any
\* position and `..` at the root staying at the root, and None when a
\* component does not exist.
C26_SelectResolves ==
    (call.fn = "select" /\ result.t # "pending") =>
        result = Resolve(IF call.absolute THEN << >> ELSE call.d, call.raw)

----------------------------------------------------------------------------
(* mypakler.extract_section                                                *)

\* C30: extract_section either returns exactly section.len bytes, the source
\* bytes in [section.start, section.start + section.len), or raises a read
\* error; it never returns a shorter result.
C30_ExactOrError ==
    (call.fn = "extract_section" /\ result.t = "ok") =>
        /\ Len(result.v) = call.section.len
        /\ result.v = Bytes(call.section.start, call.section.start + call.section.len)

----------------------------------------------------------------------------
(* Closing the firmware objects                                            *)

\* C29: once firmware_info has returned or raised, every firmware object it
\* obtained from firmwares_from_file is closed, whatever the outcome of each
\* PAK's get_info.
C29_AllClosedAfterFirmwareInfo ==
    (inp.cmd \in {"api", "info"} /\ fpc \notin {"idle", "get_info"}) => opened = {}

----------------------------------------------------------------------------
(* The download cache                                                      *)

\* no file of the cache directory has been cut short so far
NothingTruncated == \A k \in DOMAIN asked : asked[k].url # ""

\* C24: a cached file that is truncated never makes a URL request fail: a
\* call with the cache enabled does not raise on what it found in the cache.
C24_TruncatedCacheRefetched ==
    (asked # << >> /\ asked[Len(asked)].url # "" /\ asked[Len(asked)].use_cache) =>
        ~(served.from = "cache" /\ served.t = "raise")

\* C27: once a call with the cache enabled has downloaded a URL and
\* make_cache_file has stored the download, a later call with the cache
\* enabled for the same URL makes no fetch.
C27_CachedThenNoFetch ==
    [][(/\ Len(asked') = Len(asked) + 1
        /\ asked'[Len(asked')].use_cache
        /\ asked'[Len(asked')].url \in made
        /\ NothingTruncated) => fetches' = fetches]_vars

\* C28: whatever downloads make_cache_file has stored, get_cache_file on the
\* URL a download was stored for designates a file that holds the bytes
\* downloaded from that URL.
C28_CacheKeepsUrlsApart ==
    NothingTruncated =>
        \A u \in made :
            LET f == get_cache_file(cachedir, direct_download_url(u))
            IN  f \in CacheFiles /\ cachedir[f] = PakOf(u)

----------------------------------------------------------------------------
(* Temporary files                                                         *)

\* C25: after get_fs_from_ubi, get_files_from_ubifs, extract_file_system or
\* UBIFS.from_bytes followed by UBIFS.close has finished, normally or by an
\* exception, no temporary file or descriptor created by it remains.
C25_NothingLeftBehind ==
    tpc \in {"done", "raised"} => held = {}

====
